---- MODULE Spec2Model ----
(***************************************************************************)
(* A model of hass-swipe-navigation (src/unnamed/part_002): the            *)
(* configuration model (Config), the resilient node resolver (PageObject   *)
(* and the PageObjectManager registry) and the gesture and navigation      *)
(* engine (SwipeManager).                                                  *)
(*                                                                         *)
(* JavaScript null/undefined is the empty tuple Null; a present value v is *)
(* Some(v).  DOM nodes are positive integers, 0 is "no node".              *)
(***************************************************************************)
EXTENDS Integers, Sequences, FiniteSets, TLC

Null == <<>>
Some(v) == <<v>>
Val(o) == o[1]
Abs(n) == IF n < 0 THEN 0 - n ELSE n
Sign(n) == IF n < 0 THEN 0 - 1 ELSE IF n > 0 THEN 1 ELSE 0

(***************************************************************************)
(* Bounds of the model.                                                    *)
(***************************************************************************)
\* the longest tab strip the host shows
MaxTabs == 4
\* how many nodes the host ever creates for one resolver
MaxNodes == 2
\* how many readConfig invocations may be suspended in the poll at once
MaxReaders == 2
\* how many scheduled animation timers may be pending at once
MaxTimers == 5

(***************************************************************************)
(* Config: the settings snapshot and parseConfig.                          *)
(***************************************************************************)
\* swipe_amount is a float in the source; it is kept as the exact rational
\* num/den so that "divide by 100" is computed, not assumed.
Rational(n, d) == [num |-> n, den |-> d]

DefaultConfig ==
  [ animate |-> "none",
    animate_duration |-> 200,
    enable |-> TRUE,
    enable_mouse_swipe |-> FALSE,
    logger_level |-> "WARN",
    prevent_default |-> FALSE,
    skip_hidden |-> TRUE,
    skip_tabs |-> <<>>,
    swipe_amount |-> Rational(15, 100),
    wrap |-> TRUE ]

AnimateModes == {"none", "swipe", "fade", "flip"}
LoggerLevels == {"verbose", "debug", "info", "warn", "error"}
ConfigFields == {"animate", "animate_duration", "enable", "enable_mouse_swipe", "logger_level",
                 "prevent_default", "skip_hidden", "skip_tabs", "swipe_amount", "wrap"}

Has(raw, f) == f \in DOMAIN raw

\* The schema check: every present field has a value of its declared type.
\* Raw values are kept well-typed per field in this model, so the only
\* violations are literals outside the animate / logger_level unions.
instanceOfSwipeNavigationConfig(rawConfig) ==
  /\ rawConfig # Null
  /\ Has(Val(rawConfig), "animate") => Val(rawConfig).animate \in AnimateModes
  /\ Has(Val(rawConfig), "logger_level") => Val(rawConfig).logger_level \in LoggerLevels

\* Strings are sequences of one-character strings.
Digits == <<"0", "1", "2", "3", "4", "5", "6", "7", "8", "9">>
IsDigit(c) == \E i \in 1..10 : Digits[i] = c
DigitVal(c) == (CHOOSE i \in 1..10 : Digits[i] = c) - 1

\* .replace(/\s+/g, "")
StripSpaces(str) == SelectSeq(str, LAMBDA c : c # " ")

\* .split(","): a string always yields at least one (possibly empty) item
RECURSIVE SplitComma(_, _)
SplitComma(str, cur) ==
  IF str = <<>> THEN <<cur>>
  ELSE IF Head(str) = "," THEN <<cur>> \o SplitComma(Tail(str), <<>>)
  ELSE SplitComma(Tail(str), Append(cur, Head(str)))

\* parseInt on the digits read so far; it stops at the first non-digit
RECURSIVE ParseDigits(_, _)
ParseDigits(str, acc) ==
  IF str = <<>> \/ ~IsDigit(Head(str)) THEN acc
  ELSE ParseDigits(Tail(str), Some((IF acc = Null THEN 0 ELSE Val(acc)) * 10 + DigitVal(Head(str))))

\* parseInt(item): Null stands for NaN
ParseInt(item) ==
  IF item # <<>> /\ Head(item) = "-"
  THEN LET m == ParseDigits(Tail(item), Null) IN IF m = Null THEN Null ELSE Some(0 - Val(m))
  ELSE ParseDigits(item, Null)

ParseSkipTabs(str) ==
  LET items == SplitComma(StripSpaces(str), <<>>)
  IN [i \in 1..Len(items) |-> ParseInt(items[i])]

ParseLoggerLevel(level) ==
  CASE level = "verbose" -> "VERBOSE"
    [] level = "debug" -> "DEBUG"
    [] level = "info" -> "INFO"
    [] level = "warn" -> "WARN"
    [] level = "error" -> "ERROR"

\* rawConfig.swipe_amount / 100.0
ParseSwipeAmount(amount) == Rational(amount, 100)

\* a parseConfig without the schema check: any object's fields are taken
parseConfigLenient(rawConfig) ==
  IF rawConfig = Null THEN Null
  ELSE Some([DefaultConfig EXCEPT
         !.animate = IF Has(Val(rawConfig), "animate") THEN Val(rawConfig).animate ELSE @,
         !.swipe_amount = IF Has(Val(rawConfig), "swipe_amount")
                          THEN ParseSwipeAmount(Val(rawConfig).swipe_amount) ELSE @])

\* Config.parseConfig: Null when the raw value fails the schema
parseConfig(rawConfig) ==
  IF ~instanceOfSwipeNavigationConfig(rawConfig) THEN Null
  ELSE LET raw == Val(rawConfig)
           d == DefaultConfig
       IN Some(
         [ animate |-> IF Has(raw, "animate") THEN raw.animate ELSE d.animate,
           animate_duration |->
             IF Has(raw, "animate_duration") THEN raw.animate_duration ELSE d.animate_duration,
           enable |-> IF Has(raw, "enable") THEN raw.enable ELSE d.enable,
           enable_mouse_swipe |->
             IF Has(raw, "enable_mouse_swipe") THEN raw.enable_mouse_swipe ELSE d.enable_mouse_swipe,
           logger_level |->
             IF Has(raw, "logger_level") THEN ParseLoggerLevel(raw.logger_level) ELSE d.logger_level,
           prevent_default |->
             IF Has(raw, "prevent_default") THEN raw.prevent_default ELSE d.prevent_default,
           skip_hidden |-> IF Has(raw, "skip_hidden") THEN raw.skip_hidden ELSE d.skip_hidden,
           skip_tabs |-> IF Has(raw, "skip_tabs") THEN ParseSkipTabs(raw.skip_tabs) ELSE d.skip_tabs,
           swipe_amount |->
             IF Has(raw, "swipe_amount") THEN ParseSwipeAmount(raw.swipe_amount) ELSE d.swipe_amount,
           wrap |-> IF Has(raw, "wrap") THEN raw.wrap ELSE d.wrap ])

(***************************************************************************)
(* State.                                                                  *)
(***************************************************************************)
VARIABLES
  \* --- host (environment) ---
  dom,            \* dom[p]: the latest node the host created for p's selector, 0 = none yet
  attached,       \* attached[p]: dom[p] is a child of (the shadow root of) dom[parent of p]
  hostConfig,     \* lovelace.config: Null = not readable, Some(raw swipe_nav object)
  tabs,           \* the paper-tab children of the tab strip: tabs[i] = TRUE iff display:none
  activeTab,      \* index (0-based) of the .iron-selected paper-tab, -1 = none
  rtl,            \* home-assistant's style.direction == "rtl"
  \* --- PageObject ---
  cache,          \* #domNode of each resolver, 0 = null
  keepAlive,      \* #keepAlive
  kac,            \* #keepAliveChildren: the keys, in insertion order
  obs,            \* obs[c]: the nodes observed by the MutationObserver stored for child c
  pending,        \* pending[c]: that observer has undelivered records with added nodes
  cbRefreshed,    \* #onDomNodeRefreshedCallback
  cbRemoved,      \* #onDomNodeRemovedCallback
  \* --- Config ---
  currentConfig,  \* Config.currentConfig
  rawConfig,      \* Config.rawConfig
  readers,        \* the readConfig invocations suspended at "await getRawConfigOrNull()"
  configObservers,\* Config.configObservers, in registration order
  notified,       \* the observer calls of the latest readConfig, with the snapshot each saw
  \* --- SwipeManager ---
  xDown, yDown, xDiff, yDiff,
  listeners,      \* #pointerEventsAbortController (ctl) and the listeners not aborted (on)
  timers,         \* pending setTimeout callbacks of #click
  overflow,       \* style.overflow of the latest haAppLayout node
  viewStyle,      \* style of the latest view node: transform, opacity, transition
  \* --- run() ---
  pc,             \* where run() stands
  \* --- observation of the last step (history, not program state) ---
  log,            \* what the resolver did during the last step
  last,           \* what the handlers of the last step did, and its target search if any
  phys            \* the physical interaction in progress

hostVars == <<dom, attached, hostConfig, tabs, activeTab, rtl>>
poVars == <<cache, keepAlive, kac, obs, pending, cbRefreshed, cbRemoved>>
configVars == <<currentConfig, rawConfig, readers, notified, configObservers>>
swipeVars == <<xDown, yDown, xDiff, yDiff, listeners, timers, overflow, viewStyle>>
histVars == <<log, last, phys>>
vars == <<hostVars, poVars, configVars, swipeVars, pc, histVars>>

(***************************************************************************)
(* PageObjectManager: the registry tree.                                   *)
(***************************************************************************)
PO == {"ha", "haMain", "partialPanelResolver", "haPanelLovelace", "huiRoot",
       "haAppLayout", "haAppLayoutView", "tabsContainer"}

Parent(p) ==
  CASE p = "ha" -> "document"
    [] p = "haMain" -> "ha"
    [] p = "partialPanelResolver" -> "haMain"
    [] p = "haPanelLovelace" -> "partialPanelResolver"
    [] p = "huiRoot" -> "haPanelLovelace"
    [] p = "haAppLayout" -> "huiRoot"
    [] p = "haAppLayoutView" -> "haAppLayout"
    [] p = "tabsContainer" -> "haAppLayout"

RECURSIVE Ancestors(_)
Ancestors(p) == IF Parent(p) = "document" THEN {} ELSE {Parent(p)} \cup Ancestors(Parent(p))
Descendants(p) == {q \in PO : p \in Ancestors(q)}

(***************************************************************************)
(* The host DOM as the resolvers see it.                                   *)
(***************************************************************************)
RECURSIVE Connected(_)
\* the latest node of p is in the document
Connected(p) ==
  IF dom[p] = 0 \/ ~attached[p] THEN FALSE
  ELSE IF Parent(p) = "document" THEN TRUE
  ELSE Connected(Parent(p))

\* node.isConnected for node n of resolver p
IsConnected(p, n) == n # 0 /\ n = dom[p] /\ Connected(p)

\* parentNode.querySelector(selector) for resolver p, where parentNode is
\* the document (p = ha) or node `parentNode` of p's parent resolver (or its
\* shadow root); the subtree of a node the host has replaced is gone.
QuerySelector(p, parentNode) ==
  IF Parent(p) = "document"
  THEN IF dom[p] # 0 /\ attached[p] THEN dom[p] ELSE 0
  ELSE IF parentNode # 0 /\ parentNode = dom[Parent(p)] /\ dom[p] # 0 /\ attached[p]
       THEN dom[p] ELSE 0

(***************************************************************************)
(* PageObject.  The methods call each other and the registered callbacks   *)
(* synchronously, so each is an operator from the program state s before   *)
(* the call to the state after it.                                         *)
(***************************************************************************)
Prog ==
  [ cache |-> cache, keepAlive |-> keepAlive, kac |-> kac, obs |-> obs, pending |-> pending,
    cbRefreshed |-> cbRefreshed, cbRemoved |-> cbRemoved,
    readers |-> readers, listeners |-> listeners,
    xDown |-> xDown, yDown |-> yDown, xDiff |-> xDiff, yDiff |-> yDiff,
    timers |-> timers, overflow |-> overflow, viewStyle |-> viewStyle,
    log |-> <<>>, runs |-> <<>>, rearmed |-> FALSE, search |-> Null, returned |-> TRUE ]

\* one entry of the record of what the resolver did during a step; cb is
\* p's "removed" callback at that moment
Log(s, ev, p, n) ==
  [s EXCEPT !.log = Append(@, [ev |-> ev, po |-> p, node |-> n, cb |-> s.cbRemoved[p]])]

\* no AbortController yet (line 503) and no listener; a listener is on a
\* node, for an event type, under the signal of a controller
NoListeners == [ctl |-> 0, on |-> <<>>]

\* a stale check that trusts every cached node
IsStaleNever(s, p) == FALSE

\* #isStale
IsStale(s, p) == ~IsConnected(p, s.cache[p])

\* The methods are run by a small interpreter: a frame names a method (or
\* the rest of one after a nested call) and its arguments; running a frame
\* changes the state and pushes the frames of the calls it makes.  The value
\* a nested getDomNode() returns is the callee's cache when it returns.
F(op, p, c, i) == [op |-> op, p |-> p, c |-> c, i |-> i]
Call(op, p) == F(op, p, "", 0)
Ret(s, push) == [s |-> s, push |-> push]

\* one entry of the record of what the handlers of a step did
Run(s, h, outcome, idx, dx, dy) ==
  [s EXCEPT !.runs = Append(@, [h |-> h, outcome |-> outcome, idx |-> idx, dx |-> dx, dy |-> dy])]

\* #disconnectAllChildrenObservers: observer.disconnect() also drops the
\* records not yet delivered
DisconnectAllChildrenObservers(s, p) ==
  LET ks == {s.kac[p][i] : i \in 1..Len(s.kac[p])}
      s1 == [s EXCEPT !.obs = [c \in PO |-> IF c \in ks THEN {} ELSE @[c]],
                      !.pending = [c \in PO |-> IF c \in ks THEN FALSE ELSE @[c]]]
  IN IF ks = {} THEN s ELSE Log(s1, "disconnect", p, s.cache[p])

\* invalidateDomNode, lines 290-294
DoInvalidateDomNode(s, p) ==
  LET s1 == DisconnectAllChildrenObservers(s, p)
  IN IF s1.cbRemoved[p] # "null"
     THEN Ret(Log(s1, "removed", p, s1.cache[p]), <<Call(s1.cbRemoved[p], p), Call("clear", p)>>)
     ELSE Ret(s1, <<Call("clear", p)>>)

\* an invalidation that also empties the caches of the kept-alive children
DoClearWithChildren(s, p) ==
  Ret(Log([s EXCEPT !.cache = [q \in PO |-> IF q = p \/ (\E i \in 1..Len(s.kac[p]) : s.kac[p][i] = q)
                                            THEN 0 ELSE @[q]]],
          "clear", p, s.cache[p]), <<>>)

\* invalidateDomNode, line 295
DoClear(s, p) == Ret(Log([s EXCEPT !.cache[p] = 0], "clear", p, s.cache[p]), <<>>)

\* watchChanges; c, i: the two callbacks
DoWatchChanges(s, p, refreshed, removed) ==
  Ret(s, <<Call("setKeepAlive", p), F("setCallbacks", p, refreshed, removed)>>)

\* lines 300-301; the call is recorded with the "removed" callback passed
DoSetCallbacks(s, p, refreshed, removed) ==
  Ret(Run([s EXCEPT !.cbRefreshed[p] = refreshed, !.cbRemoved[p] = removed],
          "watchChanges", removed, -1, Null, Null), <<>>)

\* a #setKeepAlive that marks the resolver alone
DoSetKeepAliveSelfOnly(s, p) == Ret([s EXCEPT !.keepAlive[p] = TRUE], <<>>)

\* #setKeepAlive
DoSetKeepAlive(s, p) ==
  IF ~s.keepAlive[p]
  THEN Ret([s EXCEPT !.keepAlive[p] = TRUE], <<Call("ensureKeepAliveWhenNeeded", p)>>)
  ELSE Ret(s, <<>>)

\* #ensureKeepAliveWhenNeeded
DoEnsureKeepAliveWhenNeeded(s, p) ==
  IF s.keepAlive[p] /\ Parent(p) # "document"
  THEN Ret(s, <<F("addPageObjectToKeepAlive", Parent(p), p, 0)>>)
  ELSE Ret(s, <<>>)

\* #addPageObjectToKeepAlive: this = par, pageObject = c
DoAddPageObjectToKeepAlive(s, par, c) ==
  IF ~(\E i \in 1..Len(s.kac[par]) : s.kac[par][i] = c)
  THEN Ret([s EXCEPT !.kac[par] = Append(@, c), !.obs[c] = {}, !.pending[c] = FALSE],
           <<Call("setKeepAlive", par), F("connectChildObserver", par, c, 0)>>)
  ELSE Ret(s, <<>>)

\* getParentNode: the call it makes
ParentCall(p) == IF Parent(p) = "document" THEN <<>> ELSE <<Call("getDomNode", Parent(p))>>
\* getParentNode: its value in the state that call left; the document is
\* node 1 of no resolver, a shadow root is identified with its host
GetParentNodeValue(s, p) == IF Parent(p) = "document" THEN 1 ELSE s.cache[Parent(p)]

\* getDomNode
DoGetDomNode(s, p) ==
  IF s.cache[p] = 0 THEN Ret(s, <<Call("refreshDomNode", p), Call("return", p)>>)
  ELSE IF IsStale(s, p)
  THEN Ret(Log(s, "stale", p, s.cache[p]),
           <<Call("invalidateDomNode", p), Call("getDomNode", p), Call("return", p)>>)
  ELSE Ret(s, <<Call("return", p)>>)

\* getDomNode, line 355
DoReturn(s, p) == Ret(Log(s, "return", p, s.cache[p]), <<>>)

\* #refreshDomNode, line 381
DoRefreshDomNode(s, p) == Ret(s, ParentCall(p) \o <<Call("resolve", p)>>)

\* #refreshDomNode, lines 383-404
DoResolve(s, p) ==
  LET node == QuerySelector(p, GetParentNodeValue(s, p))
      s1 == [s EXCEPT !.cache[p] = node]
  IN IF node # 0
     THEN Ret(Log(s1, "resolve", p, node),
              <<Call("ensureKeepAliveWhenNeeded", p), F("connectAllChildrenObservers", p, "", 1),
                Call("refreshed", p)>>)
     ELSE Ret(s1, <<>>)

\* #refreshDomNode, lines 401-403
DoRefreshed(s, p) ==
  IF s.cbRefreshed[p] # "null"
  THEN Ret(Log(s, "refreshed", p, s.cache[p]), <<Call(s.cbRefreshed[p], p)>>)
  ELSE Ret(s, <<>>)

\* a refresh that does not reconnect the observers of the kept-alive children
DoConnectAllChildrenObserversNever(s, p, i) == Ret(s, <<>>)

\* #connectAllChildrenObservers: forEach over the map, from its i-th key on
DoConnectAllChildrenObservers(s, p, i) ==
  IF s.cache[p] # 0 /\ i <= Len(s.kac[p])
  THEN Ret(s, <<F("connectChildObserver", p, s.kac[p][i], 0),
                F("connectAllChildrenObservers", p, "", i + 1)>>)
  ELSE Ret(s, <<>>)

\* #connectChildObserver: this = par, pageObject = c
DoConnectChildObserver(s, par, c) ==
  IF s.cache[par] # 0
  THEN Ret(s, ParentCall(c) \o <<Call("observe", c), Call("getDomNode", c)>>)
  ELSE Ret(s, <<>>)

\* #connectChildObserver, lines 425-431
DoObserve(s, c) ==
  LET parentNode == GetParentNodeValue(s, c)
  IN IF parentNode = 0 THEN Ret(s, <<>>)
     ELSE Ret(Log([s EXCEPT !.obs[c] = @ \cup {parentNode}], "observe", c, parentNode), <<>>)

\* the listeners in `on` that the abort of controller ctl leaves
Surviving(on, ctl) == SelectSeq(on, LAMBDA r : r.ctl # ctl)

\* new AbortController(): the smallest id no listener left carries
FreshCtl(on) == CHOOSE c \in 1..(Len(on) + 1) : \A i \in 1..Len(on) : on[i].ctl # c

\* an init that creates its controller without aborting the previous one
DoInitNoAbort(s) ==
  Ret([s EXCEPT !.listeners = [ctl |-> FreshCtl(s.listeners.on), on |-> s.listeners.on],
                !.rearmed = TRUE],
      <<F("watchChanges", "haAppLayout", "init", "null"), Call("getDomNode", "haAppLayout"),
        Call("attach", "haAppLayout")>>)

\* SwipeManager.init, lines 506-516
DoInit(s) ==
  LET left == Surviving(s.listeners.on, s.listeners.ctl)
  IN Ret([s EXCEPT !.listeners = [ctl |-> FreshCtl(left), on |-> left], !.rearmed = TRUE],
         <<F("watchChanges", "haAppLayout", "init", "null"), Call("getDomNode", "haAppLayout"),
           Call("attach", "haAppLayout")>>)

\* line 540
MouseListeners(cfg) == cfg.enable_mouse_swipe

\* SwipeManager.init, lines 517-552
DoAttach(s) ==
  LET node == s.cache["haAppLayout"]
      types == <<"touchstart", "touchmove", "touchend", "mousedown">>
                 \o (IF MouseListeners(currentConfig) THEN <<"mousemove", "mouseup">> ELSE <<>>)
  IN IF node # 0
     THEN Ret([s EXCEPT !.listeners.on =
                 @ \o [i \in 1..Len(types) |->
                         [node |-> node, t |-> types[i], ctl |-> s.listeners.ctl]]], <<>>)
     ELSE Ret(s, <<>>)

\* Config.readConfig up to its first suspension: the first iteration of the
\* poll in getRawConfigOrNull, lines 243-247
\* awaited: the invocation run() awaits
DoReadConfig(s, awaited) ==
  Ret(s, <<Call("getDomNode", "haPanelLovelace"),
           F("poll2", "", "", [st |-> "sleep", raw |-> Null, waited |-> 0, tries |-> 0, first |-> awaited])>>)

\* lines 247-250; r: the reader polling
DoPoll2(s, r) ==
  IF s.cache["haPanelLovelace"] # 0
  THEN Ret(s, <<Call("getDomNode", "haPanelLovelace"), F("poll3", "", "", r)>>)
  ELSE Ret(s, <<F("poll3", "", "", r)>>)

\* lines 250-269: the reader has its raw config, or sleeps for a second
DoPoll3(s, r) ==
  LET container == IF s.cache["haPanelLovelace"] # 0 THEN hostConfig ELSE Null
  IN Ret([s EXCEPT !.readers = Append(@,
            IF container # Null
            THEN [r EXCEPT !.st = "got", !.raw = container, !.tries = @ + 1]
            ELSE [r EXCEPT !.tries = @ + 1])], <<>>)

(***************************************************************************)
(* SwipeManager: the target-tab search.                                    *)
(***************************************************************************)
\* screen.width, in CSS pixels
ScreenWidth == 100
\* more iterations than any strip of MaxTabs tabs can need: a search still
\* running then is reported as "diverged"
LoopFuel == 2 * MaxTabs + 4

\* Array.prototype.includes on the parsed skip list (NaN is Null)
Includes(list, n) == \E i \in 1..Len(list) : list[i] = Some(n)

\* a step over the end that wraps whatever the setting
WrapIndexAlways(next, len, wrap) ==
  IF next = -1 THEN len - 1 ELSE IF next = len THEN 0 ELSE next

\* lines 710-714: the step over either end of the strip
WrapIndex(next, len, wrap) ==
  IF next = -1 THEN (IF wrap THEN len - 1 ELSE -1)
  ELSE IF next = len THEN (IF wrap THEN 0 ELSE -1)
  ELSE next

\* a search that never notices it came back to the active tab
StopReasonNoCycle(next, active) == IF next = -1 THEN "edge" ELSE "none"

\* lines 716-721
StopReason(next, active) ==
  IF next = active THEN "cycle" ELSE IF next = -1 THEN "edge" ELSE "none"

\* a loop condition that forgets the skip list
ShouldSkipHiddenOnly(cfg, tabsArr, next) == cfg.skip_hidden /\ tabsArr[next + 1]

\* lines 732-737: the tab at index next is skipped
ShouldSkip(cfg, tabsArr, next) ==
  \/ Includes(cfg.skip_tabs, next)
  \/ (cfg.skip_hidden /\ tabsArr[next + 1])

\* the do-while loop of lines 707-739, entered with nextTabIndex = cur
RECURSIVE NextTabLoop(_, _, _, _, _, _)
NextTabLoop(cfg, tabsArr, active, increment, cur, iters) ==
  LET next == WrapIndex(cur + increment, Len(tabsArr), cfg.wrap)
      stop == StopReason(next, active)
  IN IF iters >= LoopFuel THEN [idx |-> cur, stop |-> "diverged", iters |-> iters]
     ELSE IF stop = "none" /\ ShouldSkip(cfg, tabsArr, next)
     THEN NextTabLoop(cfg, tabsArr, active, increment, next, iters + 1)
     ELSE [idx |-> next, stop |-> stop, iters |-> iters + 1]

\* #getNextTabIndex, without the two resolver calls
NextTabIndexOf(cfg, tabsArr, activeTabIndex, directionLeft) ==
  LET r == IF activeTabIndex = -1
           THEN [idx |-> -1, stop |-> "noactive", iters |-> 0]
           ELSE NextTabLoop(cfg, tabsArr, activeTabIndex,
                            IF directionLeft THEN -1 ELSE 1, activeTabIndex, 0)
  IN [idx |-> IF r.stop # "none" THEN -1 ELSE r.idx, stop |-> r.stop, iters |-> r.iters]

(***************************************************************************)
(* SwipeManager: the pointer handlers and #click, as frames of the         *)
(* interpreter below (each "Do" operator is a handler, or the rest of one  *)
(* after a nested getDomNode()).                                           *)
(***************************************************************************)
NeutralStyle == [transform |-> "", opacity |-> "", transition |-> ""]

\* the smallest id no pending timer carries
FreshCid(tm) == CHOOSE c \in 1..(Len(tm) + 1) : \A i \in 1..Len(tm) : tm[i].cid # c

Timer(kind, mode, idx, view, cid) ==
  [kind |-> kind, mode |-> mode, idx |-> idx, view |-> view, cid |-> cid]

\* #handlePointerStart, lines 567-600: why the event is ignored, or "accepted"
StartRejected(cfg, ev) ==
  IF cfg.enable = FALSE THEN "disabled"
  ELSE IF ev.type = "touch" /\ ev.touches > 1 THEN "multitouch"
  ELSE IF ev.type = "mouse" /\ ~cfg.enable_mouse_swipe THEN "nomouse"
  ELSE IF ev.exception THEN "exception"
  ELSE "accepted"

\* #handlePointerStart
DoPointerStart(s, ev) ==
  LET why == StartRejected(currentConfig, ev)
  IN IF why \in {"multitouch", "nomouse"}
     THEN Ret(Run([s EXCEPT !.xDown = Null, !.yDown = Null], "start", why, -1, Null, Null), <<>>)
     ELSE IF why = "accepted"
     THEN Ret(Run([s EXCEPT !.xDown = Some(ev.x), !.yDown = Some(ev.y)],
                  "start", why, -1, Null, Null), <<>>)
     ELSE Ret(Run(s, "start", why, -1, Null, Null), <<>>)

\* JavaScript truthiness of a number | null
Truthy(o) == IF o = Null THEN FALSE ELSE Val(o) # 0

\* #handlePointerMove, lines 614-627
DoPointerMove(s, ev) ==
  IF Truthy(s.xDown) /\ Truthy(s.yDown)
  THEN LET dx == Val(s.xDown) - ev.x
           dy == Val(s.yDown) - ev.y
       IN Ret(Run([s EXCEPT !.xDiff = Some(dx), !.yDiff = Some(dy)],
                  "move", "tracked", -1, Some(dx), Some(dy)),
              <<Call("getDomNode", "haAppLayoutView"), Call("move2", "")>>)
  ELSE Ret(Run(s, "move", "ignored", -1, s.xDiff, s.yDiff), <<>>)

\* lines 628-633
DoMove2(s) ==
  IF s.cache["haAppLayoutView"] # 0 /\ currentConfig.animate = "swipe"
  THEN Ret(s, <<Call("getDomNode", "haAppLayout"), Call("move3", "")>>)
  ELSE Ret(s, <<>>)

\* lines 633-639
DoMove3(s) ==
  Ret([s EXCEPT !.overflow = IF s.cache["haAppLayout"] # 0 THEN "hidden" ELSE @,
                !.viewStyle.transform = "drag"], <<>>)

\* a threshold that takes swipe_amount for a fraction of one pixel
ClassifyNoWidth(cfg, dx, dy) ==
  IF Abs(dx) < Abs(dy) THEN "vertical"
  ELSE IF Abs(dx) * cfg.swipe_amount.den < Abs(cfg.swipe_amount.num) THEN "short"
  ELSE "swipe"

\* lines 651 and 655: "vertical", "short", or "swipe"
Classify(cfg, dx, dy) ==
  IF Abs(dx) < Abs(dy) THEN "vertical"
  ELSE IF Abs(dx) * cfg.swipe_amount.den < Abs(ScreenWidth * cfg.swipe_amount.num) THEN "short"
  ELSE "swipe"

\* #handlePointerEnd, lines 649-663
DoPointerEnd(s) ==
  LET class == IF s.xDiff # Null /\ s.yDiff # Null
               THEN Classify(currentConfig, Val(s.xDiff), Val(s.yDiff)) ELSE "idle"
  IN IF class = "swipe"
     THEN Ret(s, <<Call("getDomNode", "ha"), Call("end2", "")>>)
     ELSE Ret(Run(s, "end", class, -1, s.xDiff, s.yDiff),
              <<Call("resetSwipe", ""), Call("clearSession", "")>>)

\* an argument that ignores the layout direction
SearchDirectionLtrOnly(directionLeft, isRtl) == directionLeft

\* line 664: the argument of #getNextTabIndex
SearchDirection(directionLeft, isRtl) == IF isRtl THEN ~directionLeft ELSE directionLeft

\* lines 663-664 and 696: #getTabsArray of #getNextTabIndex
DoEnd2(s) ==
  LET directionLeft == Val(s.xDiff) < 0
      isRtl == IF s.cache["ha"] # 0 THEN rtl ELSE FALSE
  IN Ret(s, <<Call("getDomNode", "tabsContainer"),
              F("end3", "", "", [dir |-> SearchDirection(directionLeft, isRtl)])>>)

\* lines 696-697
DoEnd3(s, a) ==
  LET tabsArr == IF s.cache["tabsContainer"] # 0 THEN tabs ELSE <<>>
  IN Ret(s, <<Call("getDomNode", "tabsContainer"),
              F("end4", "", "", [dir |-> a.dir, tabsArr |-> tabsArr])>>)

\* lines 697-748 and 665-671
DoEnd4(s, a) ==
  LET activeTabIndex == IF s.cache["tabsContainer"] # 0 /\ activeTab < Len(a.tabsArr)
                        THEN activeTab ELSE -1
      r == NextTabIndexOf(currentConfig, a.tabsArr, activeTabIndex, a.dir)
      s1 == [Run(s, "end", IF r.idx >= 0 THEN "navigate" ELSE "notarget", r.idx, s.xDiff, s.yDiff)
               EXCEPT !.search = Some([tabsArr |-> a.tabsArr, active |-> activeTabIndex,
                                       directionLeft |-> a.dir, idx |-> r.idx,
                                       stop |-> r.stop, iters |-> r.iters])]
  IN IF r.idx >= 0
     THEN Ret(s1, <<F("click", "", "", [idx |-> r.idx, directionLeft |-> Val(s.xDiff) < 0]),
                    Call("clearSession", "")>>)
     ELSE Ret(s1, <<Call("resetSwipe", ""), Call("clearSession", "")>>)

\* lines 673-676: the transform is eased back to neutral
DoResetSwipe(s) == Ret(s, <<Call("getDomNode", "haAppLayoutView"), Call("reset2", "")>>)

\* lines 677-679
DoReset2(s) ==
  IF s.cache["haAppLayoutView"] # 0 /\ currentConfig.animate = "swipe"
  THEN Ret(s, <<Call("getDomNode", "haAppLayout"), Call("reset3", "")>>)
  ELSE Ret(s, <<>>)

\* lines 678-683
DoReset3(s) ==
  Ret([s EXCEPT !.overflow = IF s.cache["haAppLayout"] # 0 THEN "hidden" ELSE @,
                !.viewStyle = [transform |-> "translate(0, 0)", opacity |-> @.opacity,
                               transition |-> "200ms ease-out"]], <<>>)

\* a last line that forgets the delta
DoClearSessionStartOnly(s) == Ret([s EXCEPT !.xDown = Null, !.yDown = Null], <<>>)

\* line 688
DoClearSession(s) ==
  Ret([s EXCEPT !.xDown = Null, !.yDown = Null, !.xDiff = Null, !.yDiff = Null], <<>>)

\* #click, lines 751-755
DoClick(s, a) ==
  IF a.idx < 0 THEN Ret(s, <<>>)
  ELSE Ret(s, <<Call("getDomNode", "haAppLayoutView"), F("click2", "", "", a)>>)

\* line 756: #getTabsArray
DoClick2(s, a) ==
  Ret(s, <<Call("getDomNode", "tabsContainer"),
           F("click3", "", "", [idx |-> a.idx, directionLeft |-> a.directionLeft,
                                view |-> s.cache["haAppLayoutView"]])>>)

\* lines 758-771 and 785-810
DoClick3(s, a) ==
  LET configAnimate == currentConfig.animate
      cid == FreshCid(s.timers)
  IN IF a.view = 0 THEN Ret(Run(s, "click", "noview", a.idx, Null, Null), <<>>)
     ELSE IF configAnimate = "none" THEN Ret(Run(s, "click", "dispatch", a.idx, Null, Null), <<>>)
     ELSE IF configAnimate = "swipe"
     THEN Ret(s, <<Call("getDomNode", "haAppLayout"), F("click4", "", "", a)>>)
     ELSE IF configAnimate = "fade"
     THEN Ret([Run(s, "click", "scheduled", a.idx, Null, Null) EXCEPT
                 !.viewStyle = [transform |-> @.transform, opacity |-> "0",
                                transition |-> "ease-in"],
                 !.timers = @ \o << Timer("click", "fade", a.idx, a.view, cid),
                                    Timer("back", "fade", a.idx, a.view, cid) >>], <<>>)
     ELSE Ret([Run(s, "click", "scheduled", a.idx, Null, Null) EXCEPT
                 !.viewStyle = [transform |-> "rotatey", opacity |-> "0.25",
                                transition |-> "ease-in"],
                 !.timers = @ \o << Timer("click", "flip", a.idx, a.view, cid),
                                    Timer("back", "flip", a.idx, a.view, cid) >>], <<>>)

\* a swipe animation that never restores the overflow
DoClick4NoRestore(s, a) ==
  LET cid == FreshCid(s.timers)
  IN Ret([Run(s, "click", "scheduled", a.idx, Null, Null) EXCEPT
            !.overflow = IF s.cache["haAppLayout"] # 0 THEN "hidden" ELSE @,
            !.viewStyle = [transform |-> "in", opacity |-> "0", transition |-> "ease-in"],
            !.timers = @ \o << Timer("click", "swipe", a.idx, a.view, cid),
                               Timer("back", "swipe", a.idx, a.view, cid) >>], <<>>)

\* lines 771-783 and 806-819: animation mode swipe
DoClick4(s, a) ==
  LET cid == FreshCid(s.timers)
  IN Ret([Run(s, "click", "scheduled", a.idx, Null, Null) EXCEPT
            !.overflow = IF s.cache["haAppLayout"] # 0 THEN "hidden" ELSE @,
            !.viewStyle = [transform |-> "in", opacity |-> "0", transition |-> "ease-in"],
            !.timers = @ \o << Timer("click", "swipe", a.idx, a.view, cid),
                               Timer("back", "swipe", a.idx, a.view, cid),
                               Timer("overflow", "swipe", a.idx, a.view, cid) >>], <<>>)

\* the setTimeout callbacks of #click: lines 779-783, 787-791, 796-799
DoTimerClick(s, tm) ==
  Ret([Run(s, "timer", "dispatch", tm.idx, Null, Null) EXCEPT
         !.viewStyle =
           IF tm.view # dom["haAppLayoutView"] THEN @
           ELSE [transform |-> IF tm.mode = "swipe" THEN "out" ELSE @.transform,
                 opacity |-> IF tm.mode = "fade" THEN "0" ELSE @.opacity,
                 transition |-> ""]], <<>>)

\* lines 806-810
DoTimerBack(s, tm) ==
  Ret([Run(s, "timer", "back", tm.idx, Null, Null) EXCEPT
         !.viewStyle =
           IF tm.view # dom["haAppLayoutView"] THEN @
           ELSE [transform |-> "", opacity |-> "1", transition |-> "ease-out"]], <<>>)

\* lines 813-818
DoTimerOverflow(s, tm) ==
  Ret(Run(s, "timer", "overflow", tm.idx, Null, Null),
      <<Call("getDomNode", "haAppLayout"), Call("overflow2", "")>>)

DoOverflow2(s) ==
  Ret([s EXCEPT !.overflow = IF s.cache["haAppLayout"] # 0 THEN "" ELSE @], <<>>)

\* the listeners of one dispatch, in turn: a.k are still to be called;
\* listeners aborted by a re-arming during the dispatch are not called
DoDispatch(s, a) ==
  IF a.k = 0 \/ s.rearmed THEN Ret(s, <<>>)
  ELSE Ret(s, <<F(a.handler, "", "", a.ev), F("dispatch", "", "", [a EXCEPT !.k = @ - 1])>>)

(***************************************************************************)
(* The interpreter.                                                        *)
(***************************************************************************)
\* one frame; "probe" is a callback of another client of the resolver, which
\* touches no state of this module
Step(s, f) ==
  CASE f.op = "getDomNode" -> DoGetDomNode(s, f.p)
    [] f.op = "return" -> DoReturn(s, f.p)
    [] f.op = "invalidateDomNode" -> DoInvalidateDomNode(s, f.p)
    [] f.op = "clear" -> DoClear(s, f.p)
    [] f.op = "refreshDomNode" -> DoRefreshDomNode(s, f.p)
    [] f.op = "resolve" -> DoResolve(s, f.p)
    [] f.op = "refreshed" -> DoRefreshed(s, f.p)
    [] f.op = "watchChanges" -> DoWatchChanges(s, f.p, f.c, f.i)
    [] f.op = "setCallbacks" -> DoSetCallbacks(s, f.p, f.c, f.i)
    [] f.op = "setKeepAlive" -> DoSetKeepAlive(s, f.p)
    [] f.op = "ensureKeepAliveWhenNeeded" -> DoEnsureKeepAliveWhenNeeded(s, f.p)
    [] f.op = "addPageObjectToKeepAlive" -> DoAddPageObjectToKeepAlive(s, f.p, f.c)
    [] f.op = "connectAllChildrenObservers" -> DoConnectAllChildrenObservers(s, f.p, f.i)
    [] f.op = "connectChildObserver" -> DoConnectChildObserver(s, f.p, f.c)
    [] f.op = "observe" -> DoObserve(s, f.p)
    [] f.op = "init" -> DoInit(s)
    [] f.op = "attach" -> DoAttach(s)
    [] f.op = "readConfig" -> DoReadConfig(s, f.c = "run")
    [] f.op = "poll2" -> DoPoll2(s, f.i)
    [] f.op = "poll3" -> DoPoll3(s, f.i)
    [] f.op = "probe" -> Ret(s, <<>>)
    [] f.op = "dispatch" -> DoDispatch(s, f.i)
    [] f.op = "pointerStart" -> DoPointerStart(s, f.i)
    [] f.op = "pointerMove" -> DoPointerMove(s, f.i)
    [] f.op = "move2" -> DoMove2(s)
    [] f.op = "move3" -> DoMove3(s)
    [] f.op = "pointerEnd" -> DoPointerEnd(s)
    [] f.op = "end2" -> DoEnd2(s)
    [] f.op = "end3" -> DoEnd3(s, f.i)
    [] f.op = "end4" -> DoEnd4(s, f.i)
    [] f.op = "resetSwipe" -> DoResetSwipe(s)
    [] f.op = "reset2" -> DoReset2(s)
    [] f.op = "reset3" -> DoReset3(s)
    [] f.op = "clearSession" -> DoClearSession(s)
    [] f.op = "click" -> DoClick(s, f.i)
    [] f.op = "click2" -> DoClick2(s, f.i)
    [] f.op = "click3" -> DoClick3(s, f.i)
    [] f.op = "click4" -> DoClick4(s, f.i)
    [] f.op = "timerClick" -> DoTimerClick(s, f.i)
    [] f.op = "timerBack" -> DoTimerBack(s, f.i)
    [] f.op = "timerOverflow" -> DoTimerOverflow(s, f.i)
    [] f.op = "overflow2" -> DoOverflow2(s)

\* the interpreter runs at most 2^ExecDepth frames
ExecDepth == 12

\* run the first frame of the stack
StepM(m) ==
  LET r == Step(m.s, Head(m.stack))
  IN [s |-> r.s, stack |-> r.push \o Tail(m.stack)]

\* run up to 2^k frames, the first one first
RECURSIVE Iter(_, _)
Iter(m, k) ==
  IF m.stack = <<>> THEN m
  ELSE IF k = 0 THEN StepM(m)
  ELSE Iter(Iter(m, k - 1), k - 1)

\* run the stack to completion; a program that is still running when the
\* interpreter gives up has not returned
Exec(s, stack) ==
  LET m == Iter([s |-> s, stack |-> stack], ExecDepth)
  IN [m.s EXCEPT !.returned = @ /\ m.stack = <<>>]

GetDomNode(s, p) == Exec(s, <<Call("getDomNode", p)>>)
InvalidateDomNode(s, p) == Exec(s, <<Call("invalidateDomNode", p)>>)
WatchChanges(s, p, refreshed, removed) == Exec(s, <<F("watchChanges", p, refreshed, removed)>>)
SwipeManagerInit(s) == Exec(s, <<Call("init", "")>>)
\* a DOM event of the given type reaching k listeners
Dispatch(s, handler, ev, k) ==
  Exec(s, <<F("dispatch", "", "", [handler |-> handler, ev |-> ev, k |-> k])>>)

(***************************************************************************)
(* Inputs of the model.                                                    *)
(***************************************************************************)
\* clientX / clientY of the pointer events: where a contact begins ...
Pt(x, y) == [x |-> x, y |-> y]
StartPoints == {Pt(40, 40), Pt(0, 40)}
\* ... and where it moves to: from (40, 40) these are 60 px to the right,
\* 40 px to the left and 40 px up
MovePoints == {Pt(100, 40), Pt(0, 40), Pt(40, 0)}

EmptyObject == <<>>
\* the swipe_nav sections the host serves in the gesture specification
RawObjects == {[swipe_amount |-> 50], [enable |-> FALSE]}

\* the tab strips the host shows in the gesture specification (TRUE: the
\* tab is display:none); the first tab is the selected one
TabStrips == {<<FALSE, FALSE, FALSE>>, <<FALSE, TRUE>>}

(***************************************************************************)
(* Steps of the program.  A step is one task of the event loop: a DOM      *)
(* event with all its listeners, a timer, a microtask.                     *)
(***************************************************************************)
Install(s, ev) ==
  /\ cache' = s.cache /\ keepAlive' = s.keepAlive /\ kac' = s.kac /\ obs' = s.obs
  /\ pending' = s.pending /\ cbRefreshed' = s.cbRefreshed /\ cbRemoved' = s.cbRemoved
  /\ readers' = s.readers /\ listeners' = s.listeners
  /\ xDown' = s.xDown /\ yDown' = s.yDown /\ xDiff' = s.xDiff /\ yDiff' = s.yDiff
  /\ timers' = s.timers /\ overflow' = s.overflow /\ viewStyle' = s.viewStyle
  /\ log' = s.log
  /\ last' = [ev |-> ev, runs |-> s.runs, search |-> s.search, returned |-> s.returned]

\* the program state s a step leaves becomes the next state, within the
\* bounds of the model
Commit(s, ev) ==
  /\ Len(s.readers) <= MaxReaders
  /\ Len(s.timers) <= MaxTimers
  /\ Install(s, ev)

\* microtasks run before the next task: resolved readConfig continuations,
\* the continuation of run(), MutationObserver callbacks
MicroPending ==
  \/ pc = "init"
  \/ \E i \in 1..Len(readers) : readers[i].st = "got"
  \/ \E c \in PO : pending[c]

RemoveAt(seq, i) == SubSeq(seq, 1, i - 1) \o SubSeq(seq, i + 1, Len(seq))

\* run() up to "await Config.readAndMonitorConfig()": the config observer is
\* registered, hui-root is watched and the first readConfig starts its poll
RunStart ==
  /\ pc = "start"
  /\ Commit(Exec(Prog, <<F("watchChanges", "huiRoot", "readConfig", "null"),
                          F("readConfig", "", "run", 0)>>), "run")
  /\ pc' = "await"
  /\ configObservers' = Append(configObservers, "logger")
  /\ UNCHANGED <<hostVars, currentConfig, rawConfig, notified, phys>>

\* the rest of run(): SwipeManager.init()
RunInit ==
  /\ pc = "init"
  /\ Commit(SwipeManagerInit(Prog), "init")
  /\ pc' = "done"
  /\ UNCHANGED <<hostVars, currentConfig, rawConfig, notified, configObservers, phys>>

\* the seconds the poll lasts (line 243)
PollSeconds == 15

\* getRawConfigOrNull after a sleep of one second: the deadline check and
\* the next attempt
\* a loop condition that forgets the deadline
DeadlinePassedNever(waited) == FALSE

\* line 246: Date.now() < timeout.getTime() fails; waited: the seconds since
\* the poll began
DeadlinePassed(waited) == waited >= PollSeconds

\* the 1 s timer of a sleeping poll fires, after late more seconds than it
\* was set for: the loop condition is evaluated, and the next attempt made
\* or the poll given up (lines 246-269)
PollWake(i, late) ==
  /\ ~MicroPending
  /\ i \in 1..Len(readers)
  /\ readers[i].st = "sleep"
  /\ readers[i].tries <= PollSeconds
  /\ LET r == readers[i]
         rest == [Prog EXCEPT !.readers = RemoveAt(@, i)]
         w == r.waited + 1 + late
     IN IF DeadlinePassed(w)
        THEN Install([rest EXCEPT !.readers = Append(@,
                        [r EXCEPT !.st = "got", !.waited = IF w < PollSeconds THEN w ELSE PollSeconds])],
                     "poll")
        ELSE Commit(Exec(rest, <<Call("getDomNode", "haPanelLovelace"),
                                 F("poll2", "", "", [r EXCEPT !.waited = w])>>), "poll")
  /\ UNCHANGED <<hostVars, currentConfig, rawConfig, notified, configObservers, pc, phys>>

\* a readConfig that never compares: every valid raw value is applied
ReadOutcomeNoCompare(raw, savedRaw, cfg) ==
  IF parseConfig(raw) = Null THEN "invalid" ELSE "applied"

\* readConfig, lines 148-165: what becomes of the raw value read, given the
\* saved raw value and the current snapshot (JSON.stringify of the canonical
\* raw values and snapshots of the model is injective)
ReadOutcome(raw, savedRaw, cfg) ==
  IF raw = savedRaw THEN "identical"
  ELSE IF parseConfig(raw) = Null THEN "invalid"
  ELSE IF Val(parseConfig(raw)) = cfg THEN "equivalent"
  ELSE "applied"

\* a notification that walks the observers from the last one registered
NotifyAllReversed(observers, cfg) ==
  [i \in 1..Len(observers) |-> [obs |-> observers[Len(observers) + 1 - i], saw |-> cfg]]

\* lines 171-173: configObservers.forEach; each callback reads
\* Config.current()
NotifyAll(observers, cfg) ==
  [i \in 1..Len(observers) |-> [obs |-> observers[i], saw |-> cfg]]

\* readConfig from line 148 on, for the reader that resolved first
ReaderResume ==
  /\ \E i \in 1..Len(readers) :
       /\ readers[i].st = "got"
       /\ \A j \in 1..(i - 1) : readers[j].st # "got"
       /\ LET r == readers[i]
              out == ReadOutcome(r.raw, rawConfig, currentConfig)
              cfg == IF out = "applied" THEN Val(parseConfig(r.raw)) ELSE currentConfig
          IN /\ readers' = RemoveAt(readers, i)
             /\ rawConfig' = IF out = "identical" THEN rawConfig ELSE r.raw
             /\ currentConfig' = cfg
             /\ notified' = IF out = "applied" THEN NotifyAll(configObservers, cfg) ELSE <<>>
             /\ pc' = IF r.first THEN "init" ELSE pc
             /\ last' = [ev |-> "config",
                         runs |-> <<[h |-> "readConfig", outcome |-> out, idx |-> -1,
                                     dx |-> Null, dy |-> Null]>>,
                         search |-> Null, returned |-> TRUE]
  /\ log' = <<>>
  /\ UNCHANGED <<hostVars, poVars, swipeVars, phys, configObservers>>

\* a MutationObserver callback: the records name added nodes
DeliverMutation(c) ==
  /\ pending[c]
  /\ Commit(GetDomNode([Prog EXCEPT !.pending[c] = FALSE], c), "mutation")
  /\ UNCHANGED <<hostVars, currentConfig, rawConfig, notified, configObservers, pc, phys>>

(***************************************************************************)
(* Steps of the host: the DOM is rebuilt outside the program's control.    *)
(***************************************************************************)
HostUnchanged == UNCHANGED <<cache, keepAlive, kac, obs, cbRefreshed, cbRemoved, configVars,
                             xDown, yDown, xDiff, yDiff, listeners, timers, pc, phys>>

\* the host creates a node for p under the connected node of p's parent;
\* deep: together with its whole subtree
HostInsert(p, deep) ==
  /\ ~MicroPending
  /\ IF Parent(p) = "document" THEN TRUE ELSE Connected(Parent(p))
  /\ ~(dom[p] # 0 /\ attached[p])
  /\ \A q \in {p} \cup (IF deep THEN Descendants(p) ELSE {}) : dom[q] < MaxNodes
  /\ dom' = [q \in PO |-> IF q = p \/ (deep /\ q \in Descendants(p)) THEN dom[q] + 1 ELSE dom[q]]
  /\ attached' = [q \in PO |-> IF q = p THEN TRUE
                               ELSE IF q \in Descendants(p) THEN deep
                               ELSE attached[q]]
  /\ pending' = [c \in PO |->
                   IF Parent(c) = Parent(p) /\ Parent(p) # "document" /\ dom[Parent(p)] \in obs[c]
                   THEN TRUE ELSE pending[c]]
  /\ overflow' = IF p = "haAppLayout" \/ (deep /\ "haAppLayout" \in Descendants(p))
                 THEN "" ELSE overflow
  /\ viewStyle' = IF p = "haAppLayoutView" \/ (deep /\ "haAppLayoutView" \in Descendants(p))
                  THEN NeutralStyle ELSE viewStyle
  /\ log' = <<>>
  /\ last' = [ev |-> "host", runs |-> <<>>, search |-> Null, returned |-> TRUE]
  /\ UNCHANGED <<hostConfig, tabs, activeTab, rtl>>
  /\ HostUnchanged

\* the host detaches the node of p (its subtree stays below it)
HostRemove(p) ==
  /\ ~MicroPending
  /\ Connected(p)
  /\ attached' = [attached EXCEPT ![p] = FALSE]
  /\ log' = <<>>
  /\ last' = [ev |-> "host", runs |-> <<>>, search |-> Null, returned |-> TRUE]
  /\ UNCHANGED <<dom, hostConfig, tabs, activeTab, rtl, pending, overflow, viewStyle>>
  /\ HostUnchanged

\* the host serves another configuration (or none yet)
HostSetConfig(v) ==
  /\ ~MicroPending
  /\ hostConfig # v
  /\ hostConfig' = v
  /\ log' = <<>>
  /\ last' = [ev |-> "host", runs |-> <<>>, search |-> Null, returned |-> TRUE]
  /\ UNCHANGED <<dom, attached, tabs, activeTab, rtl, pending, overflow, viewStyle>>
  /\ HostUnchanged

\* the host selects another tab (after a click, or by itself)
HostSelectTab(a) ==
  /\ ~MicroPending
  /\ a \in -1..(Len(tabs) - 1)
  /\ a # activeTab
  /\ activeTab' = a
  /\ log' = <<>>
  /\ last' = [ev |-> "host", runs |-> <<>>, search |-> Null, returned |-> TRUE]
  /\ UNCHANGED <<dom, attached, hostConfig, tabs, rtl, pending, overflow, viewStyle>>
  /\ HostUnchanged

(***************************************************************************)
(* Pointer events.  phys is the physical interaction: the contacts on the  *)
(* screen, the mouse button, the layout node the interaction began on, and *)
(* where the tracked coordinates come from ("cur": this interaction,       *)
(* "old": an earlier one).                                                 *)
(***************************************************************************)
NoPhys == [fingers |-> 0, mouse |-> FALSE, node |-> 0, multi |-> FALSE, denied |-> FALSE,
           downOwner |-> "none", diffOwner |-> "none", used |-> "none"]

\* the listeners of type t a dispatch on node n reaches
ListenersOn(n, t) ==
  Cardinality({i \in 1..Len(listeners.on) : listeners.on[i].node = n /\ listeners.on[i].t = t})

Accepted(s) == \E i \in 1..Len(s.runs) : s.runs[i].h = "start" /\ s.runs[i].outcome = "accepted"
Tracked(s) == \E i \in 1..Len(s.runs) : s.runs[i].h = "move" /\ s.runs[i].outcome = "tracked"
UsedDelta(s) == \E i \in 1..Len(s.runs) : s.runs[i].h = "end" /\ s.runs[i].outcome # "idle"
Denied(s) == \E i \in 1..Len(s.runs) : s.runs[i].h = "start" /\ s.runs[i].outcome = "exception"

\* phys after a step of interaction ph that left program state s; over: the
\* interaction ended with this step.  A delta belongs to this interaction
\* when a move of it computed it from a start of it; used: whose delta the
\* pointer-end of this step read; denied: the interaction began with a
\* pointer-start that the handler ignored for an element of the denylist.
PhysAfter(ph, s, over) ==
  LET down == IF s.xDown = Null THEN "none" ELSE IF Accepted(s) THEN "cur" ELSE phys.downOwner
      diff == IF s.xDiff = Null THEN "none"
              ELSE IF Tracked(s) THEN (IF phys.downOwner = "cur" THEN "cur" ELSE "old")
              ELSE phys.diffOwner
  IN [ph EXCEPT !.downOwner = IF over /\ down = "cur" THEN "old" ELSE down,
                !.diffOwner = IF over /\ diff = "cur" THEN "old" ELSE diff,
                !.used = IF UsedDelta(s) THEN phys.diffOwner ELSE "none",
                !.denied = ph.denied \/ Denied(s)]

\* a pointer event handled: the program state and the interaction after it
CommitEvent(s, ev, ph, over) ==
  /\ Commit(s, ev)
  /\ phys' = PhysAfter(ph, s, over)

EventUnchanged == UNCHANGED <<hostVars, currentConfig, rawConfig, notified, configObservers, pc>>

\* a contact begins at pt; a secondary contact is told apart by
\* touches.length alone
TouchStart(pt, exception) ==
  /\ ~MicroPending
  /\ phys.fingers < 2 /\ ~phys.mouse
  /\ phys.fingers > 0 => (pt = Pt(40, 40) /\ ~exception)
  /\ phys.fingers = 0 => Connected("haAppLayout")
  /\ LET node == IF phys.fingers = 0 THEN dom["haAppLayout"] ELSE phys.node
         ev == [type |-> "touch", touches |-> phys.fingers + 1, x |-> pt.x, y |-> pt.y,
                exception |-> exception]
         ph == [phys EXCEPT !.fingers = @ + 1, !.node = node,
                            !.multi = IF phys.fingers = 0 THEN FALSE ELSE TRUE,
                            !.denied = IF phys.fingers = 0 THEN FALSE ELSE @]
     IN CommitEvent(Dispatch(Prog, "pointerStart", ev, ListenersOn(node, "touchstart")),
                    "touchstart", ph, FALSE)
  /\ EventUnchanged

\* pt: touches[0] of the event
TouchMove(pt) ==
  /\ ~MicroPending
  /\ phys.fingers > 0
  /\ LET ev == [type |-> "touch", touches |-> phys.fingers, x |-> pt.x, y |-> pt.y,
                exception |-> FALSE]
     IN CommitEvent(Dispatch(Prog, "pointerMove", ev, ListenersOn(phys.node, "touchmove")),
                    "touchmove", phys, FALSE)
  /\ EventUnchanged

TouchEnd ==
  /\ ~MicroPending
  /\ phys.fingers > 0
  /\ CommitEvent(Dispatch(Prog, "pointerEnd", 0, ListenersOn(phys.node, "touchend")),
                 "touchend", [phys EXCEPT !.fingers = @ - 1], phys.fingers = 1)
  /\ EventUnchanged

\* the browser cancels the touch: no listener of the engine hears of it
TouchCancel ==
  /\ ~MicroPending
  /\ phys.fingers > 0
  /\ phys' = PhysAfter([phys EXCEPT !.fingers = 0], Prog, TRUE)
  /\ log' = <<>>
  /\ last' = [ev |-> "touchcancel", runs |-> <<>>, search |-> Null, returned |-> TRUE]
  /\ UNCHANGED <<poVars, readers, swipeVars>>
  /\ EventUnchanged

MouseDown(pt, exception) ==
  /\ ~MicroPending
  /\ phys.fingers = 0 /\ ~phys.mouse
  /\ Connected("haAppLayout")
  /\ LET node == dom["haAppLayout"]
         ev == [type |-> "mouse", touches |-> 0, x |-> pt.x, y |-> pt.y, exception |-> exception]
         ph == [phys EXCEPT !.mouse = TRUE, !.node = node, !.multi = FALSE, !.denied = FALSE]
     IN CommitEvent(Dispatch(Prog, "pointerStart", ev, ListenersOn(node, "mousedown")),
                    "mousedown", ph, FALSE)
  /\ EventUnchanged

\* the mouse moves over the layout, the button pressed or not
MouseMove(pt) ==
  /\ ~MicroPending
  /\ phys.fingers = 0
  /\ Connected("haAppLayout")
  /\ LET ev == [type |-> "mouse", touches |-> 0, x |-> pt.x, y |-> pt.y, exception |-> FALSE]
     IN CommitEvent(Dispatch(Prog, "pointerMove", ev, ListenersOn(dom["haAppLayout"], "mousemove")),
                    "mousemove", phys, FALSE)
  /\ EventUnchanged

\* the button is released over the layout
MouseUp ==
  /\ ~MicroPending
  /\ phys.mouse
  /\ Connected("haAppLayout")
  /\ CommitEvent(Dispatch(Prog, "pointerEnd", 0, ListenersOn(dom["haAppLayout"], "mouseup")),
                 "mouseup", [phys EXCEPT !.mouse = FALSE], TRUE)
  /\ EventUnchanged

\* the button is released outside the layout: no listener hears of it
MouseUpOutside ==
  /\ ~MicroPending
  /\ phys.mouse
  /\ phys' = PhysAfter([phys EXCEPT !.mouse = FALSE], Prog, TRUE)
  /\ log' = <<>>
  /\ last' = [ev |-> "mouseup-outside", runs |-> <<>>, search |-> Null, returned |-> TRUE]
  /\ UNCHANGED <<poVars, readers, swipeVars>>
  /\ EventUnchanged

\* a setTimeout callback of #click: the timers of one click run in the
\* order they were set
TimerFire(i) ==
  /\ ~MicroPending
  /\ i \in 1..Len(timers)
  /\ \A j \in 1..(i - 1) : timers[j].cid # timers[i].cid
  /\ LET tm == timers[i]
         op == CASE tm.kind = "click" -> "timerClick"
                 [] tm.kind = "back" -> "timerBack"
                 [] tm.kind = "overflow" -> "timerOverflow"
     IN Commit(Exec([Prog EXCEPT !.timers = RemoveAt(@, i)], <<F(op, "", "", tm)>>), "timer")
  /\ UNCHANGED phys
  /\ EventUnchanged

(***************************************************************************)
(* Other clients of the resolver API (PageObject is a public class).       *)
(***************************************************************************)
ClientUnchanged == UNCHANGED <<hostVars, currentConfig, rawConfig, notified, configObservers, pc, phys>>

ClientWatchChanges(p, removed) ==
  /\ ~MicroPending
  /\ cbRefreshed[p] \in {"null", "probe"}
  /\ Commit(WatchChanges(Prog, p, "probe", removed), "watch")
  /\ ClientUnchanged

ClientGetDomNode(p) ==
  /\ ~MicroPending
  /\ Commit(GetDomNode(Prog, p), "get")
  /\ ClientUnchanged

\* Config.registerConfigObserver by another client, for an observer not
\* registered yet
ClientRegister(o) ==
  /\ ~MicroPending
  /\ \A i \in 1..Len(configObservers) : configObservers[i] # o
  /\ configObservers' = Append(configObservers, o)
  /\ log' = <<>>
  /\ last' = [ev |-> "register", runs |-> <<>>, search |-> Null, returned |-> TRUE]
  /\ UNCHANGED <<hostVars, poVars, swipeVars, currentConfig, rawConfig, readers, notified, pc, phys>>

\* Config.unregisterConfigObserver: indexOf and splice
ClientUnregister(o) ==
  /\ ~MicroPending
  /\ \E i \in 1..Len(configObservers) :
       /\ configObservers[i] = o
       /\ \A j \in 1..(i - 1) : configObservers[j] # o
       /\ configObservers' = RemoveAt(configObservers, i)
  /\ log' = <<>>
  /\ last' = [ev |-> "unregister", runs |-> <<>>, search |-> Null, returned |-> TRUE]
  /\ UNCHANGED <<hostVars, poVars, swipeVars, currentConfig, rawConfig, readers, notified, pc, phys>>

(***************************************************************************)
(* Initial states and specifications.                                      *)
(***************************************************************************)
\* the static fields as the class definitions initialise them
InitStatics ==
  /\ cache = [p \in PO |-> 0]
  /\ keepAlive = [p \in PO |-> FALSE]
  /\ kac = [p \in PO |-> <<>>]
  /\ obs = [p \in PO |-> {}]
  /\ pending = [p \in PO |-> FALSE]
  /\ cbRefreshed = [p \in PO |-> "null"]
  /\ cbRemoved = [p \in PO |-> "null"]
  /\ readers = <<>>
  /\ notified = <<>>
  /\ configObservers = <<>>
  /\ xDown = Null /\ yDown = Null /\ xDiff = Null /\ yDiff = Null
  /\ listeners = NoListeners
  /\ timers = <<>>
  /\ overflow = ""
  /\ viewStyle = NeutralStyle
  /\ log = <<>>
  /\ last = [ev |-> "none", runs |-> <<>>, search |-> Null, returned |-> TRUE]
  /\ phys = NoPhys

\* the script is loaded and run() has not begun
InitProgram ==
  /\ InitStatics
  /\ currentConfig = DefaultConfig
  /\ rawConfig = Null
  /\ pc = "start"

\* the dashboard is rendered when the script loads
InitHost ==
  /\ dom = [p \in PO |-> 1]
  /\ attached = [p \in PO |-> TRUE]

\* The gesture engine under touch input, on a dashboard whose hui-root the
\* host re-renders and whose configuration the user edits.
Init ==
  /\ InitProgram
  /\ InitHost
  /\ hostConfig \in {Some(r) : r \in RawObjects}
  /\ tabs \in TabStrips
  /\ activeTab = 0
  /\ rtl = FALSE

Next ==
  \/ RunStart
  \/ RunInit
  \/ ReaderResume
  \/ \E c \in PO : DeliverMutation(c)
  \/ \E r \in RawObjects : HostSetConfig(Some(r))
  \/ HostRemove("huiRoot")
  \/ HostInsert("huiRoot", TRUE)
  \/ \E pt \in StartPoints, e \in BOOLEAN : TouchStart(pt, e)
  \/ \E pt \in MovePoints : TouchMove(pt)
  \/ TouchEnd
  \/ TouchCancel

Spec == Init /\ [][Next]_vars

(***************************************************************************)
(* The target-tab search on every strip, selected tab and settings: the    *)
(* initial states draw them, the one action is a pointer-end that has      *)
(* tracked a horizontal swipe.                                             *)
(***************************************************************************)
\* the skip_tabs strings the user writes: "", "1, 2", "0", "3"
SkipStrings == {<<>>, <<"1", ",", " ", "2">>, <<"0">>, <<"3">>}

SearchRawObjects ==
  {[wrap |-> w, skip_hidden |-> h, skip_tabs |-> str] :
     w \in BOOLEAN, h \in BOOLEAN, str \in SkipStrings}

Strips == UNION {[1..n -> BOOLEAN] : n \in 0..MaxTabs}

SearchInit ==
  /\ InitStatics
  /\ InitHost
  /\ \E raw \in SearchRawObjects :
       /\ hostConfig = Some(raw)
       /\ rawConfig = Some(raw)
       /\ currentConfig = Val(parseConfig(Some(raw)))
  /\ pc = "done"
  /\ tabs \in Strips
  /\ activeTab \in -1..(Len(tabs) - 1)
  /\ rtl \in BOOLEAN

\* #handlePointerEnd with the delta (dx, 0) tracked
SearchStep(dx) ==
  /\ Commit(Exec([Prog EXCEPT !.xDown = Some(40), !.yDown = Some(40),
                               !.xDiff = Some(dx), !.yDiff = Some(0)],
                 <<Call("pointerEnd", "")>>), "search")
  /\ UNCHANGED <<hostVars, currentConfig, rawConfig, notified, configObservers, pc, phys>>

SearchNext == \E dx \in {-60, 60} : SearchStep(dx)

SearchSpec == SearchInit /\ [][SearchNext]_vars

(***************************************************************************)
(* The resolvers under a host that detaches and re-creates nodes at every  *)
(* level below the panel resolver, with another client of the resolver API *)
(* next to the engine.                                                     *)
(***************************************************************************)
\* the resolvers whose nodes the host detaches and re-creates
DomLevels == {"huiRoot", "haAppLayout"}
\* the resolvers the other client uses
ClientLevels == {"haAppLayout", "tabsContainer"}

DomInit ==
  /\ InitProgram
  /\ InitHost
  /\ hostConfig = Some(EmptyObject)
  /\ tabs = <<FALSE, FALSE>>
  /\ activeTab = 0
  /\ rtl = FALSE

DomNext ==
  \/ RunStart
  \/ RunInit
  \/ ReaderResume
  \/ \E c \in PO : DeliverMutation(c)
  \/ \E p \in DomLevels : HostRemove(p)
  \/ \E p \in DomLevels, deep \in BOOLEAN : HostInsert(p, deep)
  \/ HostRemove("ha")
  \/ HostInsert("ha", TRUE)
  \/ \E removed \in {"null", "probe"} : ClientWatchChanges("tabsContainer", removed)
  \/ \E p \in ClientLevels : ClientGetDomNode(p)

DomSpec == DomInit /\ [][DomNext]_vars

\* The configuration: the dashboard serves valid, equivalent and invalid raw
\* values; hui-root is re-rendered, which starts another readConfig; another
\* client registers an observer of its own.
ConfigRawObjects ==
  {EmptyObject, [swipe_amount |-> 15], [swipe_amount |-> 50], [animate |-> "spin"]}

HostConfigs == {Some(r) : r \in ConfigRawObjects}

ConfigInit ==
  /\ InitProgram
  /\ InitHost
  /\ hostConfig \in HostConfigs
  /\ tabs = <<FALSE, FALSE>>
  /\ activeTab = 0
  /\ rtl = FALSE

ConfigNext ==
  \/ RunStart
  \/ RunInit
  \/ ReaderResume
  \/ \E c \in PO : DeliverMutation(c)
  \/ \E v \in HostConfigs : HostSetConfig(v)
  \/ HostRemove("huiRoot")
  \/ HostInsert("huiRoot", TRUE)
  \/ ClientRegister("probe")
  \/ ClientUnregister("probe")
  \/ ClientUnregister("logger")

ConfigSpec == ConfigInit /\ [][ConfigNext]_vars

\* The bootstrap poll: the raw-config container is not readable for a while
\* (or never) and the 1 s timers fire on time or late; the readConfig that
\* run() awaits and the one the hui-root "refreshed" callback started both
\* sleep in their polls.
PollConfigs == {Null, Some(EmptyObject), Some([swipe_amount |-> 50])}

\* the seconds a timer may fire late
MaxLate == 1

PollInit ==
  /\ InitProgram
  /\ InitHost
  /\ hostConfig \in PollConfigs
  /\ tabs = <<FALSE, FALSE>>
  /\ activeTab = 0
  /\ rtl = FALSE

PollNext ==
  \/ RunStart
  \/ RunInit
  \/ ReaderResume
  \/ \E i \in 1..MaxReaders, late \in 0..MaxLate : PollWake(i, late)
  \/ \E v \in PollConfigs : HostSetConfig(v)

PollSpec == PollInit /\ [][PollNext]_vars

(***************************************************************************)
(* Properties.  They read the record of the last step: which handlers ran  *)
(* (last.runs, in call order), what the resolver did (log), and whose      *)
(* coordinates a pointer-end read (phys.used).                             *)
(***************************************************************************)
RanWith(h, outcome) ==
  \E i \in 1..Len(last.runs) : last.runs[i].h = h /\ last.runs[i].outcome = outcome
Navigated == RanWith("end", "navigate")
AllFourEmpty == xDown = Null /\ yDown = Null /\ xDiff = Null /\ yDiff = Null
PointerEvents == {"touchstart", "touchmove", "touchend"}

\* C1: a pointer-end of a touch gesture in which some touch-start reported
\* more than one contact point triggers no tab change.
C1_MultitouchGestureNeverNavigates ==
  (last.ev = "touchend" /\ phys.multi) => ~Navigated

\* C5: while the current settings have enable = false, no pointer-start
\* starts tracking and no pointer-end navigates.
C5_DisabledNeverNavigates ==
  (last.ev \in PointerEvents /\ currentConfig.enable = FALSE)
    => (~Navigated /\ ~RanWith("start", "accepted"))

\* the swipe_amount percentage of the raw configuration in force
SwipePercent ==
  IF rawConfig # Null /\ Has(Val(rawConfig), "swipe_amount")
  THEN Val(rawConfig).swipe_amount ELSE 15

\* the run after run i of the last step is the click on the tab idx
ClickFollows(i, idx) ==
  /\ i < Len(last.runs)
  /\ last.runs[i + 1].h = "click"
  /\ last.runs[i + 1].idx = idx

NoClickFollows(i) == i = Len(last.runs) \/ last.runs[i + 1].h # "click"

\* C6: a pointer-end with a tracked delta discards the swipe, without a
\* target search and without a click, iff |dy| > |dx| or
\* |dx| < (swipe_amount / 100) * screen width; otherwise the search runs and
\* the tab is clicked exactly when the search returns a target.
C6_DiscardThreshold ==
  \A i \in 1..Len(last.runs) :
    LET r == last.runs[i]
    IN (r.h = "end" /\ r.dx # Null /\ r.dy # Null) =>
         IF \/ Abs(Val(r.dy)) > Abs(Val(r.dx))
            \/ Abs(Val(r.dx)) * 100 < SwipePercent * ScreenWidth
         THEN r.outcome \in {"vertical", "short"} /\ NoClickFollows(i)
         ELSE /\ r.outcome \in {"navigate", "notarget"}
              /\ r.outcome = "navigate" <=> r.idx >= 0
              /\ IF r.idx >= 0 THEN ClickFollows(i, r.idx) ELSE NoClickFollows(i)

\* a swipe of 40 px is discarded as too short under swipe_amount 50
C6_ShortSwipeDiscarded ==
  /\ last.ev = "touchend"
  /\ SwipePercent = 50
  /\ \E i \in 1..Len(last.runs) :
       last.runs[i].h = "end" /\ last.runs[i].outcome = "short" /\ last.runs[i].dx = Some(40)

\* C7: after every pointer handler the start coordinates and the delta are
\* empty together; a pointer-end, a multitouch pointer-start and a
\* pointer-start under a disabled configuration leave all four empty.
C7_ClearedTogether ==
  last.ev \in PointerEvents =>
    /\ (xDown = Null \/ yDown = Null) => (xDiff = Null /\ yDiff = Null)
    /\ (\/ \E i \in 1..Len(last.runs) : last.runs[i].h = "end"
        \/ RanWith("start", "multitouch")
        \/ RanWith("start", "disabled")) => AllFourEmpty

\* C8: the delta a pointer-end reads was computed by a pointer-move of the
\* same physical interaction from a pointer-start of that interaction.
C8_SessionWithinOneInteraction ==
  last.ev = "touchend" => phys.used \in {"none", "cur"}

\* C9: when #handlePointerEnd returns, all four tracked coordinates are
\* empty, whichever path it took.
C9_PointerEndClearsAll ==
  (last.ev = "touchend" /\ \E i \in 1..Len(last.runs) : last.runs[i].h = "end")
    => AllFourEmpty

\* a pointer-end that searched and found no target, after which nothing is
\* tracked
C9_ClearedAfterNoTarget ==
  last.ev = "touchend" /\ RanWith("end", "notarget") /\ AllFourEmpty

\* C16: a pointer-start ignored for a denylist element on its composed
\* path records no start coordinates, and the pointer-end of the interaction
\* that began with it triggers no tab change.
C16_DeniedInteractionNeverNavigates ==
  /\ (last.ev = "touchstart" /\ RanWith("start", "exception")) => phys.downOwner # "cur"
  /\ (last.ev = "touchend" /\ phys.denied) => ~Navigated

\* C20: a pointer-end that directly follows an accepted pointer-start, with
\* no pointer-move in between, triggers no tab change, whatever came before
\* the pointer-start.
C20_TapNeverNavigates ==
  [][(last.ev = "touchstart" /\ RanWith("start", "accepted") /\ last'.ev = "touchend")
       => ~Navigated']_vars

(***************************************************************************)
(* Properties of the target-tab search (SearchSpec).                       *)
(***************************************************************************)
\* the search of the last step: its inputs as the handler read them, its
\* result, why the loop stopped and after how many iterations
Searched == last.ev = "search" /\ last.search # Null
Found == Val(last.search).idx
\* the finger moved to the left / to the right
SwipedLeft == \E i \in 1..Len(last.runs) : last.runs[i].h = "end" /\ Val(last.runs[i].dx) > 0
SwipedRight == \E i \in 1..Len(last.runs) : last.runs[i].h = "end" /\ Val(last.runs[i].dx) < 0

\* tab i is in the skip-list, or hidden while skip_hidden is on
SkippedTab(i) ==
  \/ \E k \in 1..Len(currentConfig.skip_tabs) : currentConfig.skip_tabs[k] = Some(i)
  \/ (currentConfig.skip_hidden /\ tabs[i + 1])

\* the index k steps of inc from the selected tab, around the ends when
\* wrap is on
TabAfter(k, inc) ==
  IF currentConfig.wrap THEN (activeTab + k * inc) % Len(tabs) ELSE activeTab + k * inc

\* k steps of inc pass no edge
WithinStrip(k, inc) == currentConfig.wrap \/ (activeTab + k * inc) \in 0..(Len(tabs) - 1)

\* the first tab reached by stepping inc from the selected one that is not
\* skipped, -1 if an edge or the selected tab comes first
ExpectedTarget(inc) ==
  LET good == {k \in 1..(Len(tabs) - 1) :
                 /\ \A j \in 1..k : WithinStrip(j, inc)
                 /\ ~SkippedTab(TabAfter(k, inc))
                 /\ \A j \in 1..(k - 1) : SkippedTab(TabAfter(j, inc))}
  IN IF activeTab = -1 \/ good = {} THEN -1
     ELSE TabAfter(CHOOSE k \in good : TRUE, inc)

FourTabsNothingSkipped ==
  /\ Len(tabs) = 4
  /\ \A i \in 0..3 : ~SkippedTab(i)
  /\ ~rtl

\* C2: the search returns the first index reached by stepping +1 or -1 from
\* the selected tab that is neither in the skip-list nor (skip_hidden on)
\* hidden, wrapping only when wrap is on and returning no target once an
\* edge is passed; with 4 tabs and nothing skipped, swiping left from 2
\* gives 3, from 3 gives 0 with wrap on and no target with wrap off.
C2_FirstAcceptableTab ==
  Searched =>
    /\ Found = ExpectedTarget(IF Val(last.search).directionLeft THEN -1 ELSE 1)
    /\ (FourTabsNothingSkipped /\ SwipedLeft) =>
         /\ (currentConfig.wrap /\ activeTab = 2) => Found = 3
         /\ (currentConfig.wrap /\ activeTab = 3) => Found = 0
         /\ (~currentConfig.wrap /\ activeTab = 3) => Found = -1

\* swiping left from the last of 4 tabs wraps to the first
C2_WrappedToFirst ==
  Searched /\ FourTabsNothingSkipped /\ SwipedLeft /\ currentConfig.wrap /\ activeTab = 3
    /\ Found = 0

\* the skip-list is {1, 2}, tab 0 is selected, no tab is skipped as hidden,
\* the layout is left-to-right
SkipOneTwoFromZero ==
  /\ currentConfig.skip_tabs = <<Some(1), Some(2)>>
  /\ activeTab = 0
  /\ \A i \in 0..(Len(tabs) - 1) : ~(currentConfig.skip_hidden /\ tabs[i + 1])
  /\ ~rtl

LandsOnThreeOrNoTarget ==
  /\ Len(tabs) = 4 => Found = 3
  /\ Len(tabs) = 3 => Found = -1

\* C3 as stated: with skip-list {1, 2} and tab 0 selected, swiping right
\* lands on 3 on a strip 0..3 and finds no target on a strip 0..2; the
\* result is never the selected tab nor in the skip-list.
C3_SwipingRightSkipsBoth ==
  Searched =>
    /\ (SkipOneTwoFromZero /\ SwipedRight) => LandsOnThreeOrNoTarget
    /\ Found >= 0 => (Found # activeTab /\ ~SkippedTab(Found))

\* C3, amended: with skip-list {1, 2} and tab 0 selected, swiping left
\* (the step +1) lands on 3 on a strip 0..3 and finds no target on a strip
\* 0..2; swiping right (the step -1) does so only when wrap is on; the
\* result is never the selected tab nor a skipped one.
C3_SwipingLeftSkipsBoth ==
  Searched =>
    /\ (SkipOneTwoFromZero /\ SwipedLeft) => LandsOnThreeOrNoTarget
    /\ (SkipOneTwoFromZero /\ SwipedRight /\ currentConfig.wrap) => LandsOnThreeOrNoTarget
    /\ (SkipOneTwoFromZero /\ SwipedRight /\ ~currentConfig.wrap) => Found = -1
    /\ Found >= 0 => (Found # activeTab /\ ~SkippedTab(Found))

\* swiping left from 0 over the skipped tabs 1 and 2 with wrap off
C3_LandedOnThree ==
  Searched /\ SkipOneTwoFromZero /\ SwipedLeft /\ ~currentConfig.wrap
    /\ Len(tabs) = 4 /\ Found = 3 /\ Val(last.search).iters = 3

\* C4: the search returns after at most one cycle of the strip, and finds
\* no target when the selected tab is unknown or every other tab is
\* skipped.
C4_SearchTerminates ==
  Searched =>
    /\ last.returned
    /\ Val(last.search).stop # "diverged"
    /\ Val(last.search).iters <= Len(tabs)
    /\ (\/ activeTab = -1
        \/ \A i \in 0..(Len(tabs) - 1) : i # activeTab => SkippedTab(i))
         => (Found = -1 /\ ~Navigated)

\* a whole cycle over skipped tabs that ends at the selected one
C4_FullCycle ==
  /\ Searched
  /\ Len(tabs) = MaxTabs
  /\ Val(last.search).stop = "cycle"
  /\ Val(last.search).iters = Len(tabs)
  /\ Found = -1

(***************************************************************************)
(* Properties of the resolver (DomSpec).                                   *)
(***************************************************************************)
\* from the stale detection log[i] on: the watchers the resolver hosts are
\* disconnected, then the "removed" callback runs if there is one, then the
\* cache is cleared, and no resolution nor return comes before that
TornDownFirst(i) ==
  LET p == log[i].po
  IN \E j \in (i + 1)..Len(log) :
       /\ log[j].ev = "clear" /\ log[j].po = p
       /\ \A k \in (i + 1)..(j - 1) : log[k].po = p => log[k].ev \in {"disconnect", "removed"}
       /\ kac[p] # <<>> => (log[i + 1].ev = "disconnect" /\ log[i + 1].po = p)
       /\ log[i].cb # "null" =>
            \E k \in (i + 1)..(j - 1) : log[k].ev = "removed" /\ log[k].po = p

\* C10: getDomNode() returns no node that is disconnected from the
\* document; on a disconnected cached node it disconnects the watchers the
\* resolver hosts, calls the "removed" callback and clears the cache before
\* it resolves again.
C10_NeverReturnsDisconnected ==
  /\ \A i \in 1..Len(log) :
       (log[i].ev = "return" /\ log[i].node # 0) => IsConnected(log[i].po, log[i].node)
  /\ \A i \in 1..Len(log) : log[i].ev = "stale" => TornDownFirst(i)
  /\ \A p \in PO : cache[p] = 0 => \A k \in 1..Len(kac[p]) : obs[kac[p][k]] = {}

\* a call that found its node stale, ran the "removed" callback and
\* returned the node the host created since
C10_StaleReResolved ==
  \E i \in 1..Len(log) :
    /\ log[i].ev = "stale" /\ log[i].cb = "probe"
    /\ \E j \in (i + 1)..Len(log) :
         /\ log[j].ev = "return" /\ log[j].po = log[i].po
         /\ log[j].node # 0 /\ log[j].node # log[i].node

\* no child-list record waits for delivery
Quiescent == \A c \in PO : ~pending[c]

\* the kept-alive resolvers below another resolver
KeptAlive == {c \in PO : keepAlive[c] /\ Parent(c) # "document"}

\* the observer of c is on the current node of c's parent and on no other,
\* and c is resolved to its current node if the document has one
Reattached(c) ==
  /\ Connected(Parent(c)) => obs[c] = {dom[Parent(c)]}
  /\ Connected(c) => cache[c] = dom[c]

\* in a step run by a mutation record, a resolver with a "refreshed"
\* callback calls it for every node it resolves
RefreshedFired ==
  last.ev = "mutation" =>
    \A i \in 1..Len(log) :
      (log[i].ev = "resolve" /\ cbRefreshed[log[i].po] # "null") =>
        \E j \in (i + 1)..Len(log) :
          log[j].ev = "refreshed" /\ log[j].po = log[i].po /\ log[j].node = log[i].node

Listens(n, t) ==
  \E i \in 1..Len(listeners.on) : listeners.on[i].node = n /\ listeners.on[i].t = t

\* C12: once init() has run, every listener of the engine not aborted is
\* under the signal of the one current controller; when the layout resolver
\* holds a node, the listeners are on that node and on no other, so a step
\* that re-resolves the layout leaves no listener on the replaced node.
C12_RearmedOnNewLayout ==
  pc = "done" =>
    /\ \A i \in 1..Len(listeners.on) : listeners.on[i].ctl = listeners.ctl
    /\ cache["haAppLayout"] # 0 =>
         /\ \A i \in 1..Len(listeners.on) : listeners.on[i].node = cache["haAppLayout"]
         /\ \A t \in {"touchstart", "touchmove", "touchend", "mousedown"} :
              Listens(cache["haAppLayout"], t)

\* the layout node was replaced and a mutation record made the resolver
\* resolve the new one: the listeners are on the new node
C12_ListenersMoved ==
  /\ pc = "done"
  /\ last.ev = "mutation"
  /\ \E i \in 1..Len(log) : log[i].ev = "resolve" /\ log[i].po = "haAppLayout" /\ log[i].node = 2
  /\ Listens(2, "touchstart") /\ Listens(2, "touchend")
  /\ ~Listens(1, "touchstart") /\ ~Listens(1, "touchend")

(***************************************************************************)
(* The tab-change animation: swipes in each animation mode, the timers of  *)
(* #click firing between and during later gestures, and a host that takes  *)
(* the view away.                                                          *)
(***************************************************************************)
AnimRawObjects == {[animate |-> m] : m \in AnimateModes}

AnimInit ==
  /\ InitProgram
  /\ InitHost
  /\ hostConfig \in {Some(r) : r \in AnimRawObjects}
  /\ tabs = <<FALSE, FALSE, FALSE>>
  /\ activeTab = 0
  /\ rtl = FALSE

AnimNext ==
  \/ RunStart
  \/ RunInit
  \/ ReaderResume
  \/ TouchStart(Pt(40, 40), FALSE)
  \/ TouchMove(Pt(100, 40))
  \/ TouchEnd
  \/ \E i \in 1..MaxTimers : TimerFire(i)
  \/ HostRemove("haAppLayoutView")

AnimSpec == AnimInit /\ [][AnimNext]_vars

(***************************************************************************)
(* Properties of the configuration (ConfigSpec, PollSpec).                 *)
(***************************************************************************)
\* the step is the rest of a readConfig after its raw value arrived
ReadStep == last'.ev = "config"

\* what the latest readConfig did with its raw value
ReadCameOut(outcome) == last.ev = "config" /\ RanWith("readConfig", outcome)

\* C13: a readConfig calls every registered observer once, in registration
\* order, in the step that installs a snapshot different from the current
\* one, and calls none when the raw value equals the saved raw value or when
\* its parsed, defaulted settings equal the current snapshot.
C13_NotifiedOncePerEffectiveChange ==
  [][ReadStep =>
       LET parsed == parseConfig(rawConfig')
       IN /\ rawConfig' = rawConfig => (notified' = <<>> /\ currentConfig' = currentConfig)
          /\ (parsed # Null /\ Val(parsed) = currentConfig) =>
               (notified' = <<>> /\ currentConfig' = currentConfig)
          /\ (rawConfig' # rawConfig /\ parsed # Null /\ Val(parsed) # currentConfig) =>
               /\ currentConfig' = Val(parsed)
               /\ Len(notified') = Len(configObservers)
               /\ \A i \in 1..Len(configObservers) :
                    notified'[i].obs = configObservers[i]]_vars

\* a changed swipe_amount was applied and both observers were called, the
\* one registered first before the other
C13_BothNotifiedInOrder ==
  /\ ReadCameOut("applied")
  /\ configObservers = <<"logger", "probe">>
  /\ Len(notified) = 2 /\ notified[1].obs = "logger" /\ notified[2].obs = "probe"
  /\ currentConfig.swipe_amount = Rational(50, 100)

\* C14: a readConfig whose newly read raw value fails the schema check
\* leaves the current snapshot unchanged, calls no observer and logs the
\* error; a valid raw value read while the saved raw value is a rejected one
\* is applied and notified to every observer.
C14_InvalidRejectedWhole ==
  [][ReadStep =>
       /\ (rawConfig' # rawConfig /\ ~instanceOfSwipeNavigationConfig(rawConfig')) =>
            /\ currentConfig' = currentConfig
            /\ notified' = <<>>
            /\ last'.runs[1].outcome = "invalid"
       /\ (~instanceOfSwipeNavigationConfig(rawConfig)
             /\ instanceOfSwipeNavigationConfig(rawConfig')
             /\ Val(parseConfig(rawConfig')) # currentConfig) =>
            /\ currentConfig' = Val(parseConfig(rawConfig'))
            /\ Len(notified') = Len(configObservers)
            /\ \A i \in 1..Len(notified') : notified'[i].saw = currentConfig']_vars

\* an invalid raw value was rejected while registered observers and
\* non-default settings were in place
C14_InvalidReadKeptSettings ==
  /\ ReadCameOut("invalid")
  /\ rawConfig = Some([animate |-> "spin"])
  /\ currentConfig.swipe_amount = Rational(50, 100)
  /\ Len(configObservers) = 2
  /\ notified = <<>>

\* a reader of the configuration still in its poll
Polling == \E i \in 1..Len(readers) : readers[i].st = "sleep"
\* the raw-config container can be read through the resolver
ContainerReadable == cache["haPanelLovelace"] # 0 /\ hostConfig # Null

\* what holds of every reader between the steps of its poll: one attempt per
\* second elapsed and none at or after the deadline; a reader sleeps only
\* before the deadline; one that found the container found it before the
\* deadline; one that returns no raw config has reached the deadline
PollBounded ==
  \A i \in 1..Len(readers) :
    LET r == readers[i]
    IN /\ r.tries <= PollSeconds
       /\ r.tries <= r.waited + 1
       /\ r.st = "sleep" => (r.raw = Null /\ r.waited < PollSeconds)
       /\ (r.st = "got" /\ r.raw # Null) => r.waited < PollSeconds
       /\ (r.st = "got" /\ r.raw = Null) => r.waited = PollSeconds

\* a wake-up of a sleeping poll: the clock has advanced; the poll gives up
\* without an attempt, or makes one attempt, which ends the poll if the
\* container is readable; no other reader is touched
WakeStep ==
  last'.ev = "poll" =>
    LET r == readers'[Len(readers')]
    IN \E i \in 1..Len(readers) :
         /\ readers[i].st = "sleep"
         /\ SubSeq(readers', 1, Len(readers') - 1) = RemoveAt(readers, i)
         /\ r.waited > readers[i].waited
         /\ IF r.waited = PollSeconds
            THEN r.st = "got" /\ r.raw = Null /\ r.tries = readers[i].tries
            ELSE /\ r.tries = readers[i].tries + 1
                 /\ IF ContainerReadable' THEN r.st = "got" /\ r.raw = hostConfig
                    ELSE r.st = "sleep"

\* C15: the bootstrap poll makes one attempt per second, ends at the first
\* attempt that finds the container, makes no attempt at or after the
\* 15 s deadline, and returns no raw config then.  Every poll ends: a poll
\* sleeps only before the deadline and each of its wake-ups finds the
\* clock advanced, so it is woken at most 15 times.
C15_PollTerminates ==
  /\ []PollBounded
  /\ [][WakeStep]_vars

\* a poll gave up at the deadline after an attempt in each of the 15
\* seconds, with no raw config
C15_GaveUpAtDeadline ==
  \E i \in 1..Len(readers) :
    /\ readers[i].st = "got" /\ readers[i].raw = Null
    /\ readers[i].tries = PollSeconds /\ readers[i].waited = PollSeconds

\* the step is the compare-parse-save-notify section of the reader at i,
\* run on the raw value and snapshot the previous update left, to its end
WholeUpdateOf(i) ==
  LET raw == readers[i].raw
      parsed == parseConfig(raw)
      effective == raw # rawConfig /\ parsed # Null /\ Val(parsed) # currentConfig
  IN /\ readers[i].st = "got"
     /\ readers' = RemoveAt(readers, i)
     /\ rawConfig' \in {raw, rawConfig}
     /\ currentConfig' = IF effective THEN Val(parsed) ELSE currentConfig
     /\ (notified' # <<>>) = (effective /\ configObservers # <<>>)

\* C18: with readConfig invocations overlapping in their polls, the saved
\* raw value and the snapshot change only in the section of one reader, run
\* whole on what the previous section left; every observer called sees the
\* snapshot just installed; observers are called only when the snapshot
\* changed.
C18_UpdatesDoNotInterleave ==
  [][/\ ReadStep => \E i \in 1..Len(readers) : WholeUpdateOf(i)
     /\ ~ReadStep => (rawConfig' = rawConfig /\ currentConfig' = currentConfig)
     /\ ReadStep => \A k \in 1..Len(notified') : notified'[k].saw = currentConfig'
     /\ (ReadStep /\ notified' # <<>>) => currentConfig' # currentConfig]_vars

\* one reader's value was applied and notified while an overlapping reader
\* holding the same raw value waits to resume
C18_SecondReaderHoldsSameRaw ==
  /\ ReadCameOut("applied")
  /\ notified # <<>>
  /\ Len(readers) = 1
  /\ readers[1].st = "got" /\ readers[1].raw = rawConfig

\* watchChanges has been called on p and has returned
Watched(p) == cbRefreshed[p] # "null"
InKac(par, c) == \E i \in 1..Len(kac[par]) : kac[par][i] = c

\* p is marked keep-alive and, when its parent is a resolver, is one of the
\* parent's keep-alive children
KeptByParent(p) == keepAlive[p] /\ (Parent(p) # "document" => InKac(Parent(p), p))

\* every watched resolver and its whole parent chain are kept alive
ChainKept == \A x \in PO : Watched(x) => \A p \in {x} \cup Ancestors(x) : KeptByParent(p)

\* the callbacks each caller of watchChanges passes
CallbacksAsPassed ==
  /\ (cbRefreshed["huiRoot"] = "null" /\ cbRemoved["huiRoot"] = "null")
       \/ (cbRefreshed["huiRoot"] = "readConfig" /\ cbRemoved["huiRoot"] = "null")
  /\ (cbRefreshed["haAppLayout"] = "null" /\ cbRemoved["haAppLayout"] = "null")
       \/ (cbRefreshed["haAppLayout"] = "init" /\ cbRemoved["haAppLayout"] = "null")
  /\ last.ev = "watch" =>
       /\ cbRefreshed["tabsContainer"] = "probe"
       /\ RanWith("watchChanges", cbRemoved["tabsContainer"])

\* C17: once watchChanges has returned on X, X and every resolver on its
\* parent chain are marked keep-alive and are keep-alive children of their
\* parent resolvers, and X holds the callbacks of the latest call; a
\* keep-alive mark is never taken back.
C17_WatchKeepsChainAlive ==
  /\ []ChainKept
  /\ []CallbacksAsPassed
  /\ [][\A p \in PO : keepAlive[p] => keepAlive'[p]]_vars

\* the other client has called watchChanges on the tab strip without a
\* "removed" callback, before the program itself watched anything; the
\* whole chain up to the root is kept alive
C17_ClientWatchedFirst ==
  /\ last.ev = "watch"
  /\ pc = "start"
  /\ cbRefreshed["tabsContainer"] = "probe" /\ cbRemoved["tabsContainer"] = "null"
  /\ \A p \in {"tabsContainer"} \cup Ancestors("tabsContainer") : KeptByParent(p)

(***************************************************************************)
(* Properties of the tab-change animation (AnimSpec).                      *)
(***************************************************************************)
\* the runs of handler h in the step just taken
RunsOf(h) == SelectSeq(last.runs, LAMBDA r : r.h = h)
\* the clicks dispatched to tabs in the step just taken
Dispatched == SelectSeq(last.runs, LAMBDA r : r.h \in {"click", "timer"} /\ r.outcome = "dispatch")
\* the pointer-end of the step found a target and called #click
TabChangeTriggered == last.ev = "touchend" /\ Navigated
\* ... and #click had no view to animate
NoView == RanWith("click", "noview")

\* the timers #click sets in an animated mode, in the order of their delays
SequenceOf(mode, idx, view, cid) ==
  << Timer("click", mode, idx, view, cid), Timer("back", mode, idx, view, cid) >>
    \o (IF mode = "swipe" THEN << Timer("overflow", mode, idx, view, cid) >> ELSE <<>>)

KindRank(kind) == CASE kind = "click" -> 1 [] kind = "back" -> 2 [] kind = "overflow" -> 3

\* a pointer-end that triggered a tab change: one #click, which dispatches
\* the click at once in mode none and otherwise applies the transition-out
\* styles and sets the timers of its sequence
ClickStarts ==
  TabChangeTriggered' =>
    LET c == RunsOf("click")'
        mode == currentConfig.animate
    IN /\ Len(c) = 1
       /\ IF mode = "none"
          THEN /\ c[1].outcome = "dispatch"
               /\ Len(Dispatched') = 1
               /\ timers' = timers
          ELSE /\ c[1].outcome = "scheduled"
               /\ Dispatched' = <<>>
               /\ viewStyle'.transition = "ease-in"
               /\ \E cid \in 1..(Len(timers) + 1) :
                    /\ \A i \in 1..Len(timers) : timers[i].cid # cid
                    /\ timers' = timers \o SequenceOf(mode, c[1].idx, cache'["haAppLayoutView"], cid)

\* a timer callback: the earliest pending step of its sequence; the first
\* step dispatches the one click, the others none; every other pending
\* timer stays
TimerRuns ==
  last'.ev = "timer" =>
    \E i \in 1..Len(timers) :
      /\ timers' = RemoveAt(timers, i)
      /\ \A j \in 1..Len(timers) :
           timers[j].cid = timers[i].cid /\ j # i => KindRank(timers[j].kind) > KindRank(timers[i].kind)
      /\ IF timers[i].kind = "click"
         THEN Len(Dispatched') = 1 /\ Dispatched'[1].idx = timers[i].idx
         ELSE Dispatched' = <<>>
      /\ (timers[i].kind = "overflow" /\ cache'["haAppLayout"] # 0) => overflow' = ""

\* no other step sets or cancels a timer or dispatches a click
NothingCancelled ==
  (last'.ev # "timer" /\ ~TabChangeTriggered') => (timers' = timers /\ Dispatched' = <<>>)

\* C19 as stated: every triggered tab change dispatches exactly one click,
\* at once in mode none and from the first timer of its sequence in the
\* animated modes.
C19_EveryTabChangeClicksOnce ==
  [][ClickStarts /\ TimerRuns /\ NothingCancelled]_vars

\* C19: a triggered tab change for which the view resolves dispatches
\* exactly one click: at once in mode none; in modes swipe, fade and flip
\* from the first timer of its sequence, set after the transition-out styles
\* are applied, before the ease-back timer and, in mode swipe, the timer that
\* restores the overflow; no other step cancels a pending timer.  Without a
\* view no click is dispatched and no timer is set, in any mode.
C19_TabChangeWithViewClicksOnce ==
  [][/\ ~NoView' => ClickStarts
     /\ (TabChangeTriggered' /\ NoView') => (Dispatched' = <<>> /\ timers' = timers)
     /\ TimerRuns
     /\ NothingCancelled]_vars

\* the click timer of a second swipe sequence has run while the overflow
\* timer of the first is still pending
C19_SequencesOverlap ==
  /\ last.ev = "timer" /\ Len(Dispatched) = 1
  /\ currentConfig.animate = "swipe"
  /\ \E i, j \in 1..Len(timers) :
       /\ timers[i].cid # timers[j].cid
       /\ timers[i].kind = "overflow" /\ timers[j].kind = "back"

(***************************************************************************)
(* The engine alone (the module exports nothing, so run() is the only      *)
(* caller of the resolvers) under a host that detaches and re-creates      *)
(* hui-root and the layout, shallow or with their subtrees, or the whole   *)
(* tree from home-assistant down, while touches arrive.                    *)
(***************************************************************************)
ArmNext ==
  \/ RunStart
  \/ RunInit
  \/ ReaderResume
  \/ \E c \in PO : DeliverMutation(c)
  \/ \E p \in DomLevels : HostRemove(p)
  \/ \E p \in DomLevels, deep \in BOOLEAN : HostInsert(p, deep)
  \/ HostRemove("ha")
  \/ HostInsert("ha", TRUE)
  \/ TouchStart(Pt(40, 40), FALSE)
  \/ TouchMove(Pt(100, 40))
  \/ TouchEnd

ArmSpec == DomInit /\ [][ArmNext]_vars

(***************************************************************************)
(* Further properties of the listeners, the resolvers and the gestures.    *)
(***************************************************************************)
PointerTypes == {"touchstart", "touchmove", "touchend", "mousedown", "mousemove", "mouseup"}
\* the live listeners of the engine for the event type t, on whatever node
ListenersFor(t) == {i \in 1..Len(listeners.on) : listeners.on[i].t = t}
\* the pointer handlers that ran in the step just taken
HandlerRuns == SelectSeq(last.runs, LAMBDA r : r.h \in {"start", "move", "end"})

FromEmpty(lg, c0, p, i) ==
  LET prev == {j \in 1..(i - 1) : lg[j].po = p /\ lg[j].ev \in {"clear", "resolve"}}
  IN IF prev = {} THEN c0[p] = 0
     ELSE \E j \in prev : lg[j].ev = "clear" /\ \A k \in prev : k <= j

Resolutions(lg, c0, p) ==
  {i \in 1..Len(lg) : lg[i].ev = "resolve" /\ lg[i].po = p /\ FromEmpty(lg, c0, p, i)}

Firings(lg, p) == {i \in 1..Len(lg) : lg[i].ev = "refreshed" /\ lg[i].po = p}

\* C22: in every step, a resolver whose "refreshed" callback is stored
\* throughout has that callback called once for each resolution that took
\* its cache from empty to a node, and not otherwise, whoever asked for the
\* resolution and whatever the state of its parent.
C22_RefreshedOncePerResolution ==
  [][\A p \in PO :
       (cbRefreshed[p] # "null" /\ cbRefreshed'[p] = cbRefreshed[p]) =>
         Cardinality(Firings(log', p)) = Cardinality(Resolutions(log', cache, p))]_vars


\* the step ran #handlePointerMove
MoveHandled == \E i \in 1..Len(last.runs) : last.runs[i].h = "move"

\* C23: a handled pointer-move at (x, y) that finds the start (x0, y0) of an
\* accepted pointer-start recorded, 0 on an axis included, sets the delta to
\* (x0 - x, y0 - y); one that finds no start recorded leaves the delta as it
\* was.
C23_MoveSetsDelta ==
  [][\A pt \in MovePoints :
       (TouchMove(pt) /\ MoveHandled') =>
         IF xDown # Null /\ yDown # Null
         THEN xDiff' = Some(Val(xDown) - pt.x) /\ yDiff' = Some(Val(yDown) - pt.y)
         ELSE UNCHANGED <<xDiff, yDiff>>]_vars


(***************************************************************************)
(* invalidateDomNode is a public method of PageObject.  Here it is called  *)
(* from outside, at any moment between tasks, on the resolver chain as     *)
(* run() builds it and as the host re-renders hui-root; another client     *)
(* watches haPanelLovelace, which hosts the watcher of huiRoot, with or    *)
(* without a "removed" callback.  The resolvers invalidated: the host of   *)
(* huiRoot's watcher, a watched resolver that hosts the layout's watcher,  *)
(* and the watched layout.                                                 *)
(***************************************************************************)
ClientInvalidateDomNode(p) ==
  /\ ~MicroPending
  /\ Commit(InvalidateDomNode(Prog, p), "invalidate")
  /\ ClientUnchanged

InvNext ==
  \/ RunStart
  \/ RunInit
  \/ ReaderResume
  \/ \E c \in PO : DeliverMutation(c)
  \/ HostRemove("huiRoot")
  \/ HostInsert("huiRoot", TRUE)
  \/ \E removed \in {"null", "probe"} : ClientWatchChanges("haPanelLovelace", removed)
  \/ \E p \in {"haPanelLovelace", "huiRoot", "haAppLayout"} : ClientInvalidateDomNode(p)

InvSpec == DomInit /\ [][InvNext]_vars

\* the kept-alive children of p: the resolvers whose structural watcher p hosts
Hosted(p) == {kac[p][i] : i \in 1..Len(kac[p])}

\* the resolver the step invalidated: emptying the cache is the last thing
\* invalidateDomNode does
Invalidated == log[Len(log)].po

\* the record of the step shows p's "removed" callback called
RemovedFired(p) == \E i \in 1..Len(log) : log[i].ev = "removed" /\ log[i].po = p

\* C24: invalidateDomNode on resolver p disconnects the watcher of every
\* kept-alive child of p, calls p's "removed" callback if one is stored,
\* empties p's cache, and changes nothing else of the resolvers: the caches
\* of all other resolvers (p's children included), the watchers other
\* resolvers host, the kept-alive children, the keep-alive flags and the
\* stored callbacks stay as they were.
C24_InvalidateFrame ==
  [][\A p \in PO :
       (last'.ev = "invalidate" /\ Invalidated' = p) =>
         /\ \A c \in Hosted(p) : obs'[c] = {} /\ ~pending'[c]
         /\ RemovedFired(p)' <=> cbRemoved[p] # "null"
         /\ cache'[p] = 0
         /\ \A q \in PO \ {p} : cache'[q] = cache[q]
         /\ \A c \in PO \ Hosted(p) : obs'[c] = obs[c] /\ pending'[c] = pending[c]
         /\ UNCHANGED <<kac, keepAlive, cbRefreshed, cbRemoved>>]_vars

\* a resolver that hosted a connected watcher, had a cached child and a
\* "removed" callback has just been invalidated
C24_InvalidatedHostWithCallback ==
  /\ last.ev = "invalidate"
  /\ RemovedFired("haPanelLovelace")
  /\ cache["haPanelLovelace"] = 0
  /\ cache["huiRoot"] # 0
  /\ "huiRoot" \in Hosted("haPanelLovelace")
  /\ \E i \in 1..Len(log) : log[i].ev = "disconnect" /\ log[i].po = "haPanelLovelace"


(***************************************************************************)
(* The gesture engine under mouse input: the user switches                 *)
(* enable_mouse_swipe on and off in the dashboard configuration, the host  *)
(* re-renders hui-root (which starts another readConfig and, when the      *)
(* layout comes with it, another init), and the mouse is pressed, moved    *)
(* and released over the layout or released outside it.                    *)
(***************************************************************************)
MouseInit ==
  /\ InitProgram
  /\ InitHost
  /\ hostConfig \in {Some(EmptyObject), Some([enable_mouse_swipe |-> TRUE])}
  /\ tabs = <<FALSE, FALSE, FALSE>>
  /\ activeTab = 0
  /\ rtl = FALSE

MouseNext ==
  \/ RunStart
  \/ RunInit
  \/ ReaderResume
  \/ \E c \in PO : DeliverMutation(c)
  \/ \E r \in {EmptyObject, [enable_mouse_swipe |-> TRUE]} : HostSetConfig(Some(r))
  \/ HostRemove("huiRoot")
  \/ \E deep \in BOOLEAN : HostInsert("huiRoot", deep)
  \/ MouseDown(Pt(40, 40), FALSE)
  \/ MouseMove(Pt(100, 40))
  \/ MouseUp
  \/ MouseUpOutside

MouseSpec == MouseInit /\ [][MouseNext]_vars

\* the mouse-down of the step was accepted and recorded start coordinates
MouseDownAccepted ==
  last.ev = "mousedown" /\ RanWith("start", "accepted") /\ xDown # Null /\ yDown # Null

\* C25: whenever a mouse-down is accepted and records start coordinates, a
\* mouse-move and a mouse-up listener are attached to the layout node it
\* arrived on, whatever configuration changes came before.
C25_AcceptedMouseDownIsTracked ==
  MouseDownAccepted =>
    ListenersOn(phys.node, "mousemove") >= 1 /\ ListenersOn(phys.node, "mouseup") >= 1


\* no gesture is being tracked and no timer of #click is pending
AtRest == phys.fingers = 0 /\ ~phys.mouse /\ timers = <<>>

\* C26: in animation mode swipe, whenever no gesture is being tracked and no
\* animation timer is pending, the overflow of the layout is not "hidden":
\* what a pointer-move, a discarded swipe or a tab change set has been
\* restored.
C26_OverflowRestoredAtRest ==
  (currentConfig.animate = "swipe" /\ AtRest) => overflow # "hidden"


\* the horizontal delta the pointer-end of the step classified
EndDelta == Val(last.runs[CHOOSE i \in 1..Len(last.runs) : last.runs[i].h = "end"].dx)

\* the step the claim gives for delta dx: the sign of dx, inverted when the
\* root element's direction is rtl
StepFor(dx) ==
  IF rtl THEN (IF dx < 0 THEN 1 ELSE -1) ELSE (IF dx < 0 THEN -1 ELSE 1)

\* C27: the target-tab search of a swipe steps in the direction given by
\* the sign of the horizontal delta corrected for the layout direction:
\* left-to-right, a negative delta steps -1 and a positive one +1; with the
\* root element's direction rtl the step is inverted.  The search is called
\* with that direction and returns the first acceptable tab along it.
C27_StepFollowsDeltaAndLayout ==
  Searched =>
    /\ Val(last.search).directionLeft = (StepFor(EndDelta) = -1)
    /\ Found = ExpectedTarget(StepFor(EndDelta))

\* a right-to-left layout, a negative delta, and the search stepped +1 from
\* tab 1 to tab 2
C27_RtlNegativeDeltaSteppedUp ==
  Searched /\ rtl /\ EndDelta < 0 /\ Len(tabs) = 4 /\ activeTab = 1 /\ Found = 2

====
